---- MODULE Spec2Model ----
(***************************************************************************)
(* A model of the Guardio gateway (packages/guardio): the policy pipeline  *)
(* (Processor.processMessage), the orchestrator's submission handler       *)
(* (GuardioCore.handlePostMessage and its postRequest listener), the       *)
(* client-facing HTTP transport (HttpClientTransport), tool discovery on   *)
(* upstream readiness, and the agent/connection records of the core        *)
(* repository.                                                             *)
(*                                                                         *)
(* Three specifications share the variables:                               *)
(*   Spec      one submission to POST /{name}/messages, step by step       *)
(*   SpecDisc  readiness events and discovery handshakes of the providers  *)
(*   SpecConn  client streams and the repository's connection records      *)
(***************************************************************************)
EXTENDS Integers, Sequences, FiniteSets, TLC

VARIABLES
    \* ---- upstream connections (SseUrlTransport) ----
    remotePostUrl,      \* provider -> NULL | write URL
    announced,          \* provider -> endpoint announcements received so far
    remoteEs,           \* provider -> EventSources connecting or connected
    retryTimers,        \* provider -> pending setTimeout(connectToRemote) callbacks
    connects,           \* provider -> calls of connectToRemote so far
    reachable,          \* provider -> the provider stays reachable from now on
    received,           \* provider -> the messages read from its stream, in order
    settled,            \* url -> number of handshakes whose promise has settled
    listeners,          \* listenerCount("postRequest") of the client transport
    storageDown,        \* the repository's statements fail
    \* ---- PluginManager ----
    pmConfig,           \* this.config: NULL | a loaded configuration object
    configPath,         \* this.configPath
    storagePlugins,     \* this.storagePlugins: NULL | a list of instances
    eventSinkPlugins,   \* this.eventSinkPlugins: NULL | a list of instances
    pmCalls,            \* the calls made on the PluginManager and where they stand
    pmEntries,          \* this.config.plugins: the declared plugin entries
    pmPolicyPlugins,    \* this.policyPlugins: NULL | a list of instances
    loadCall,           \* the get*Plugins call being made and where it stands
    \* ---- GuardioCore: administrative handlers ----
    instanceRows,       \* policy_instances: id -> NULL | plugin_id and config
    coreCall,           \* the administrative call that settled last
    pendingUpdate,      \* the updatePolicyInstance awaiting its lookup, if any
    usedIds,            \* the uuids createPolicyInstance has generated
    evalCalls,          \* the calls of policy.evaluate made for the submission
    lastEvent,          \* provider -> the last event of its upstream stream
    probe,              \* the running call of fetchToolsListViaDiscovery
    stdio,              \* the stdio core: pending id, queue, lines written
    \* ---- repository: policy tables ----
    policyTable,        \* set of assignment rows joined with their instance
    sinkMode,           \* how each configured event sink's emit() behaves
    instancesTbl,       \* ids of the rows of policy_instances
    assignmentsTbl,     \* rows of policy_assignments: id and policy_instance_id
    adminOps,           \* the administrative repository calls made so far
    sendCall,           \* the call of SseUrlTransport.send and where it stands
    transportOut,       \* "message" events emitted by the upstream transports
    \* ---- one submission (HttpClientTransport POST + GuardioCore) ----
    pc,                 \* position of the submission's handler
    sub,                \* the submission: body, serverName, agentId
    replied,            \* the transport's per-request `replied` flag
    httpResponses,      \* replies actually sent on the HTTP response
    policyPlugins,      \* instantiated plugins, in resolution order
    idx,                \* next policy to evaluate (1-based)
    args,               \* processMessage's `args` accumulator
    evaluated,          \* assignment rows whose evaluate() has been called
    blockedBy,          \* the row that returned "block", or NoRow
    result,             \* the ProcessResult / final {status, body}
    emitted,            \* events handed to the event sinks
    upstreamWrites,     \* bodies written to the provider's write URL
    sseOut,             \* send(message, serverName) calls of the handler
    remoteReadyByServer,\* HttpClientTransport.remoteReadyByServer
    streamOut,          \* stream -> lines written to its response
    \* ---- discovery (GuardioCore endpointReady handler) ----
    toolsListCache,     \* provider -> NoTools | catalog
    persistedTools,     \* provider -> NoTools | catalog (repository)
    discoveryInProgress,\* set of urls with a handshake in flight
    handshakes,         \* url -> number of handshakes started so far
    rehydrating,        \* pending rehydrate reads: [url, snap]
    pendingSaves,       \* set of <<provider, catalog>> saves not yet applied
    lastResolved,       \* [url, tools] of the handshake resolved last
    \* ---- client streams and repository connection records ----
    backend,            \* "sqlite" | "postgres"
    sseStreams,         \* live stream handles (stream ids)
    streams,            \* stream -> [state, provider, save, del]; save and del are the
                        \* positions of its saveAgent and deleteConnection calls
    agentsTbl,          \* repository: agents rows (agent ids)
    providersTbl,       \* repository: resource_providers rows (names)
    connectionsTbl      \* repository: connections rows <<agent, provider>>

postVars == <<pc, sub, replied, httpResponses, policyPlugins, idx, args,
              evaluated, blockedBy, result, emitted, upstreamWrites, sseOut>>
discVars == <<toolsListCache, persistedTools, discoveryInProgress, handshakes,
              rehydrating, pendingSaves, lastResolved>>
connVars == <<backend, sseStreams, streams, agentsTbl, providersTbl,
              connectionsTbl>>
upVars == <<remotePostUrl, announced, remoteReadyByServer>>
adminVars == <<instancesTbl, assignmentsTbl, adminOps>>
sendVars == <<sendCall, transportOut>>
esVars == <<remoteEs, retryTimers, connects, reachable>>
\* What the submission handler and the listeners do not write.
pmVars == <<pmConfig, configPath, storagePlugins, eventSinkPlugins, pmCalls>>
loadVars == <<pmEntries, pmPolicyPlugins, loadCall>>
coreVars == <<instanceRows, coreCall, pendingUpdate, usedIds>>
lateVars == <<loadVars, coreVars, evalCalls, lastEvent, probe, stdio>>
extVars == <<esVars, received, settled, listeners, storageDown, pmVars, lateVars>>
sideVars == <<policyTable, sinkMode, adminVars, sendVars, extVars>>
vars == <<upVars, sideVars, postVars, discVars, connVars, streamOut>>

----------------------------------------------------------------------------
(* JavaScript values *)

NULL == "null"
UNDEF == "undefined"

\* An object is a set of <<key, value>> pairs with at most one pair per key.
Keys(o) == {kv[1] : kv \in o}

\* { ...a, ...b }: the keys of b overwrite those of a.
SpreadKeepFirst(a, b) == a \cup {kv \in b : kv[1] \notin Keys(a)}
Spread(a, b) == {kv \in a : kv[1] \notin Keys(b)} \cup b

----------------------------------------------------------------------------
(* Configuration: config.servers, the plugins registered with the          *)
(* PluginManager, and the inputs the behaviours are drawn from.           *)

Providers == {"p1", "p2"}
\* config.servers[].url, trimmed: both providers point at the same address.
ServerUrl(p) == "http://mcp.example/"

AgentIds == {NULL, "a1"}
MaxAssign == 2      \* rows of policy_assignments
MaxSinks == 1       \* configured event sinks
MaxCalls == 3       \* calls made on the PluginManager
MaxEntries == 2     \* entries of config.plugins
MaxLoads == 2       \* get*Plugins calls made one after the other
MaxAppLines == 3    \* client lines read by the stdio core
MaxIntervention == 1 \* intervention plugins configured
\* policy_assignments.priority: 0 for every row created through the admin
\* routes, any integer for rows written to the table otherwise.
Priorities == {0, 10}

NoRow == [id |-> "none"]

\* A policy rule of deny-regex-parameter as stored in the instance's config.
\* `code` is not part of denyRegexParameterRuleSchema: zod strips it.
ParisRule == [name |-> "get_weather", parameter_name |-> "city",
              regex |-> "^Paris", code |-> "NO_PARIS"]

\* Instance configs as stored in policy_instances.config.
CfgEmpty == [isObject |-> TRUE, rules |-> <<>>]
CfgNull == [isObject |-> FALSE, rules |-> <<>>]
CfgParis == [isObject |-> TRUE, rules |-> <<ParisRule>>]

\* Assignment templates: an instance (plugin id, config) and the scope of
\* its assignment.  "set-units", "set-locale", "bare-block" and "faulty" are
\* custom plugins registered with registerPolicyPlugin; "ghost" was never
\* registered.
Template(id, pluginId, config, agent, provider, tool) ==
    [id |-> id, pluginId |-> pluginId, config |-> config,
     agentScope |-> agent, providerScope |-> provider, toolScope |-> tool]

Templates ==
    { Template("deny-mail", "deny-tool-access", CfgEmpty, NULL, NULL, "send_mail"),
      Template("no-paris", "deny-regex-parameter", CfgParis, NULL, NULL, NULL),
      Template("units", "set-units", CfgEmpty, NULL, NULL, NULL),
      Template("locale", "set-locale", CfgEmpty, "a1", NULL, NULL),
      Template("bare", "bare-block", CfgEmpty, NULL, NULL, "get_weather"),
      Template("faulty", "faulty", CfgEmpty, NULL, NULL, "send_mail"),
      Template("ghost", "ghost", CfgEmpty, NULL, NULL, NULL),
      Template("nocfg", "deny-tool-access", CfgNull, NULL, NULL, NULL),
      Template("p1-only", "deny-tool-access", CfgEmpty, NULL, "p1", NULL) }

\* A row of policy_assignments joined with its (enabled) policy instance.
Row(t, prio) ==
    [id |-> t.id, pluginId |-> t.pluginId, config |-> t.config,
     agentScope |-> t.agentScope, providerScope |-> t.providerScope,
     toolScope |-> t.toolScope, priority |-> prio]

Tables ==
    UNION { { {Row(t, f[t]) : t \in S} : f \in [S -> Priorities] } :
            S \in {S \in SUBSET Templates : Cardinality(S) <= MaxAssign} }

----------------------------------------------------------------------------
(* Request bodies and JSON                                                 *)

\* A parsed JSON value.  kind "object" is a JSON-RPC request object; the
\* other kinds are the JSON values null, a number and an array.
ObjVal(id, method, hasParams, name, hasArgs, a) ==
    [kind |-> "object", id |-> id, method |-> method, hasParams |-> hasParams,
     name |-> name, hasArgs |-> hasArgs, arguments |-> a]
NonObjVal(kind) ==
    [kind |-> kind, id |-> UNDEF, method |-> UNDEF, hasParams |-> FALSE,
     name |-> UNDEF, hasArgs |-> FALSE, arguments |-> {}]

\* A body is a text.  fmt "compact" is the text JSON.stringify produces for
\* its value, "spaced" is another text of the same value (whitespace, key
\* order); a text with parses = FALSE is not JSON at all.
JsonText(fmt, v) == [t |-> "json", fmt |-> fmt, parses |-> TRUE, val |-> v]
Garbage(raw) == [t |-> "raw", fmt |-> raw, parses |-> FALSE, val |-> NonObjVal("none")]
PlainText(str) == [t |-> "plain", s |-> str]
EmptyText == PlainText("")

Call(id, name, hasArgs, a) == ObjVal(id, "tools/call", TRUE, name, hasArgs, a)

ParisArgs == {<<"city", "Paris, FR">>}
OsloArgs == {<<"city", "Oslo">>, <<"units", "kelvin">>}

CallBodies ==
    { JsonText("compact", Call("\"r1\"", "get_weather", TRUE, ParisArgs)),
      JsonText("spaced", Call("7", "get_weather", TRUE, OsloArgs)),
      JsonText("compact", Call(UNDEF, "get_weather", TRUE, ParisArgs)),
      JsonText("compact", Call(NULL, "get_weather", TRUE, OsloArgs)),
      JsonText("compact", Call("7", "get_weather", FALSE, {})),
      JsonText("compact", Call("\"r1\"", "send_mail", TRUE, {<<"to", "bob">>})),
      JsonText("spaced", Call("7", UNDEF, TRUE, {})),
      JsonText("compact", ObjVal("7", "tools/call", FALSE, UNDEF, FALSE, {})) }

OtherBodies ==
    { Garbage("{not json"), Garbage(""),
      JsonText("compact", NonObjVal("null")),
      JsonText("compact", NonObjVal("number")),
      JsonText("spaced", NonObjVal("array")),
      JsonText("compact", ObjVal("1", "tools/list", FALSE, UNDEF, FALSE, {})),
      JsonText("spaced", ObjVal(UNDEF, "notifications/initialized", FALSE, UNDEF, FALSE, {})),
      JsonText("compact", ObjVal("2", UNDEF, TRUE, "get_weather", TRUE, ParisArgs)) }

Bodies == CallBodies \cup OtherBodies

\* JSON.parse(body): the value, or a SyntaxError.
ParseOk(body) == body.parses
JSONparse(body) == body.val

\* JSON.stringify(value)
JSONstringify(v) == JsonText("compact", v)

\* request.method: reading a property of null throws a TypeError; a number
\* or an array has no such property.
MethodThrows(v) == v.kind = "null"
MethodOf(v) == IF v.kind = "object" THEN v.method ELSE UNDEF

\* request.params?.name ?? "(unknown)"
ToolNameOf(v) ==
    IF v.kind = "object" /\ v.hasParams /\ v.name \notin {UNDEF, NULL}
    THEN v.name ELSE "(unknown)"

\* request.params?.arguments, as [has, obj]
NoArgs == [has |-> FALSE, obj |-> {}]
Obj(o) == [has |-> TRUE, obj |-> o]
ArgumentsOf(v) ==
    IF v.kind = "object" /\ v.hasParams /\ v.hasArgs THEN Obj(v.arguments) ELSE NoArgs

\* { ...request, params: { ...request.params, arguments: args } }
WithArguments_always(v, a) ==
    [v EXCEPT !.hasParams = TRUE, !.hasArgs = TRUE, !.arguments = a.obj]
WithArguments(v, a) ==
    [v EXCEPT !.hasParams = TRUE, !.hasArgs = a.has, !.arguments = a.obj]

----------------------------------------------------------------------------
(* Repository: getPoliciesForContext                                       *)

\* (a.agent_id IS NULL OR a.agent_id = ?) AND (a.provider_id IS NULL OR
\* a.provider_id = ?) AND (a.capability_name IS NULL OR a.capability_name = ?)
\* In SQL, `x = NULL` is never true.
ScopeMatches(scope, value) == scope = NULL \/ (value # NULL /\ scope = value)

RowMatches(r, agentId, toolName, providerId) ==
    /\ ScopeMatches(r.agentScope, agentId)
    /\ ScopeMatches(r.providerScope, providerId)
    /\ ScopeMatches(r.toolScope, toolName)

\* ORDER BY a.priority DESC
PriorityDesc(seq) ==
    \A i, j \in 1..Len(seq) : i < j => seq[i].priority >= seq[j].priority

InOrder_any(seq) == TRUE
InOrder(seq) == PriorityDesc(seq)

\* The sequences the query may return: the matching rows, each once, ordered
\* by priority descending; rows of equal priority come in an order the
\* database chooses.
getPoliciesForContext(table, agentId, toolName, providerId) ==
    LET rows == {r \in table : RowMatches(r, agentId, toolName, providerId)}
        n == Cardinality(rows)
    IN {seq \in [1..n -> rows] :
            /\ \A r \in rows : \E i \in 1..n : seq[i] = r
            /\ InOrder(seq)}

----------------------------------------------------------------------------
(* Policy plugins                                                          *)

RegisteredPlugins ==
    {"deny-tool-access", "deny-regex-parameter",
     "set-units", "set-locale", "bare-block", "faulty"}

\* denyRegexParameterConfigSchema.safeParse(config).success
RegexConfigValid(config) ==
    /\ config.isObject
    /\ Len(config.rules) >= 1
    /\ \A i \in 1..Len(config.rules) :
          config.rules[i].name # "" /\ config.rules[i].regex # ""

\* createPolicyPluginInstance(name, config) throws for an unknown name and
\* when the plugin's constructor rejects the config.
InstantiateThrows(pluginId, config) ==
    \/ pluginId \notin RegisteredPlugins
    \/ pluginId = "deny-regex-parameter" /\ ~RegexConfigValid(config)

\* DenyRegexParameterPolicyPlugin's constructor: the rules it keeps are the
\* schema's fields of each configured rule.
PluginRules(pluginId, config) ==
    IF pluginId = "deny-regex-parameter"
    THEN [i \in 1..Len(config.rules) |->
            [name |-> config.rules[i].name,
             parameterName |-> config.rules[i].parameter_name,
             pattern |-> config.rules[i].regex]]
    ELSE <<>>

\* The instance: plugin.name, the rules it kept, and the assignment row it
\* was created for.
PluginOf(r) ==
    [name |-> r.pluginId, rules |-> PluginRules(r.pluginId, r.config), row |-> r]

\* handlePostMessage's loop over the resolved assignments: rows without a
\* config object and rows whose plugin cannot be instantiated are skipped.
Usable(r) == r.config.isObject /\ ~InstantiateThrows(r.pluginId, r.config)

RECURSIVE InstantiateAll_stop(_)
InstantiateAll_stop(rows) ==
    IF rows = <<>> \/ ~Usable(Head(rows)) THEN <<>>
    ELSE <<PluginOf(Head(rows))>> \o InstantiateAll_stop(Tail(rows))

RECURSIVE InstantiateAll(_)
InstantiateAll(rows) ==
    IF rows = <<>> THEN <<>>
    ELSE IF Usable(Head(rows))
         THEN <<PluginOf(Head(rows))>> \o InstantiateAll(Tail(rows))
         ELSE InstantiateAll(Tail(rows))

\* rule.regex.test(str), for the patterns and strings of the model.
RegexTest(pattern, str) ==
    CASE pattern = "^Paris" -> str \in {"Paris, FR", "Paris"}
      [] pattern = "^send_" -> str \in {"send_mail"}
      [] OTHER -> FALSE

\* args?.[key]
HasKey(a, k) == a.has /\ k \in Keys(a.obj)
ValueAt(a, k) == (CHOOSE kv \in a.obj : kv[1] = k)[2]

getStringToTest(toolName, a, parameterName) ==
    IF parameterName = "" THEN toolName
    ELSE IF HasKey(a, parameterName) THEN ValueAt(a, parameterName)
    ELSE ""

\* A PolicyResult; verdict "throw" stands for a rejected evaluate().  A reason
\* is a tuple of the pieces of its text, NoReason when the policy gives none.
NoReason == <<>>
Result(verdict, code, reason, mod) ==
    [verdict |-> verdict, code |-> code, reason |-> reason, modified_args |-> mod]
Allow == Result("allow", UNDEF, NoReason, NoArgs)

RuleMatches(rule, toolName, a) ==
    /\ toolName = rule.name
    /\ RegexTest(rule.pattern, getStringToTest(toolName, a, rule.parameterName))

RegexReason(rule) == <<"Input matched policy rule (pattern: ", rule.pattern, ").">>

DenyRegexEvaluate(plugin, toolName, a) ==
    LET hits == {i \in 1..Len(plugin.rules) : RuleMatches(plugin.rules[i], toolName, a)}
    IN IF hits = {} THEN Allow
       ELSE LET i == CHOOSE k \in hits : \A m \in hits : k <= m
            IN Result("block", "REGEX_POLICY_MATCH", RegexReason(plugin.rules[i]), NoArgs)

\* The mutant of Evaluate: a policy that throws counts as one that allows.
Evaluate_failOpen(plugin, toolName, a) ==
    CASE plugin.name = "deny-tool-access" ->
            Result("block", "FORBIDDEN_TOOL",
                   <<"The tool '", toolName, "' is not allowed by policy.">>, NoArgs)
      [] plugin.name = "deny-regex-parameter" -> DenyRegexEvaluate(plugin, toolName, a)
      [] plugin.name = "set-units" ->
            Result("allow", UNDEF, NoReason, Obj({<<"units", "metric">>}))
      [] plugin.name = "set-locale" ->
            Result("flag", "LOCALE", NoReason, Obj({<<"units", "imperial">>, <<"lang", "en">>}))
      [] plugin.name = "bare-block" -> Result("block", UNDEF, NoReason, NoArgs)
      [] OTHER -> Result("allow", UNDEF, NoReason, NoArgs)

Evaluate(plugin, toolName, a) ==
    CASE plugin.name = "deny-tool-access" ->
            Result("block", "FORBIDDEN_TOOL",
                   <<"The tool '", toolName, "' is not allowed by policy.">>, NoArgs)
      [] plugin.name = "deny-regex-parameter" -> DenyRegexEvaluate(plugin, toolName, a)
      [] plugin.name = "set-units" ->
            Result("allow", UNDEF, NoReason, Obj({<<"units", "metric">>}))
      [] plugin.name = "set-locale" ->
            Result("flag", "LOCALE", NoReason, Obj({<<"units", "imperial">>, <<"lang", "en">>}))
      [] plugin.name = "bare-block" -> Result("block", UNDEF, NoReason, NoArgs)
      [] OTHER -> Result("throw", UNDEF, NoReason, NoArgs)

----------------------------------------------------------------------------
(* Processor: the blocked response and the audit event                     *)

TOOL_BLOCKED == "TOOL_BLOCKED"
POLICY_VIOLATION == "POLICY_VIOLATION"

ActionFor_violation(reason) == POLICY_VIOLATION
ActionFor(reason) == IF reason = "blocked" THEN TOOL_BLOCKED ELSE POLICY_VIOLATION

\* buildGuardioBlockedResponse(id, {toolName, reason, policy, policyCode,
\* policyReason}): "" when the request has no id, else the text of
\* { jsonrpc: "2.0", id, result: { content, isError: true, _guardio } }.
BlockedEnvelope_error(id, toolName, reason, policy, policyCode, policyReason) ==
    [t |-> "blocked", jsonrpc |-> "2.0", id |-> id, envelope |-> "error",
     isError |-> TRUE, toolName |-> toolName,
     requestId |-> id, policyId |-> policy, action |-> ActionFor(reason),
     hasCode |-> policyCode # UNDEF, code |-> policyCode,
     hasReason |-> policyReason # NoReason, reason |-> policyReason]
BlockedEnvelope(id, toolName, reason, policy, policyCode, policyReason) ==
    [t |-> "blocked", jsonrpc |-> "2.0", id |-> id, envelope |-> "result",
     isError |-> TRUE, toolName |-> toolName,
     requestId |-> id, policyId |-> policy, action |-> ActionFor(reason),
     hasCode |-> policyCode # UNDEF, code |-> policyCode,
     hasReason |-> policyReason # NoReason, reason |-> policyReason]

buildGuardioBlockedResponse(id, toolName, reason, policy, policyCode, policyReason) ==
    IF id \in {UNDEF, NULL} THEN EmptyText
    ELSE BlockedEnvelope(id, toolName, reason, policy, policyCode, policyReason)

\* buildProcessingEvent(input, request, toolName, outcome)
buildProcessingEvent(agentId, request, toolName, decision, policyName, policyCode, policyReason) ==
    [eventType |-> "tools/call", actionType |-> toolName,
     agentId |-> IF agentId = NULL THEN UNDEF ELSE agentId,
     decision |-> decision,
     hasPolicyEvaluation |-> decision = "BLOCKED" /\ policyName # UNDEF,
     policyName |-> IF decision = "BLOCKED" THEN policyName ELSE UNDEF,
     code |-> IF decision = "BLOCKED" THEN policyCode ELSE UNDEF,
     reason |-> IF decision = "BLOCKED" THEN policyReason ELSE NoReason,
     requestId |-> request.id,
     httpStatus |-> IF decision = "BLOCKED" THEN 200 ELSE 0]

\* What a sink's emit(event) does: its promise resolves, its promise rejects,
\* the call itself throws (an emit that is not an async function), or its
\* promise never settles.
SinkModes == {"ok", "rejects", "throws", "hangs"}
AllOk == [k \in 1..MaxSinks |-> "ok"]

\* emitProcessingEvent: eventSinks.map calls emit on one sink after the
\* other; a call that throws ends the map.
EmitAll_none(k, event) == <<>>
RECURSIVE EmitAll(_, _)
EmitAll(k, event) ==
    IF k > MaxSinks \/ sinkMode[k] = "throws" THEN <<>>
    ELSE <<[sink |-> k, event |-> event]>> \o EmitAll(k + 1, event)

\* The map threw: emitProcessingEvent, and with it processMessage, rejects.
EmitThrows == \E k \in 1..MaxSinks : sinkMode[k] = "throws"

\* await Promise.all(...) resolves: every emit promise has settled (a
\* rejected one is caught by its .catch and logged).
EmitSettles == \A k \in 1..MaxSinks : sinkMode[k] \in {"ok", "rejects"}

----------------------------------------------------------------------------
(* Upstream connection (SseUrlTransport), the client transport's broadcast *)
(* and the orchestrator's endpointReady listener                           *)

MaxReady == 1       \* endpoint announcements per provider
MaxStreams == 2     \* client streams opened in a behaviour
Streams == 1..MaxStreams

Urls == {ServerUrl(p) : p \in Providers}
ServersAt(url) == {s \in Providers : ServerUrl(s) = url}

NoTools == "none"
Catalogs == {"T1", "T2"}

\* new URL(data, this.url).href
PostUrl(p) == ServerUrl(p) \o "messages"

\* SseUrlTransport.getRemotePostUrl
getRemotePostUrl_configUrl(p) == PostUrl(p)
getRemotePostUrl(p) == remotePostUrl[p]

EndpointLine(p) == [kind |-> "endpoint", data |-> p]
DataLine(msg) == [kind |-> "data", data |-> msg]

\* HttpClientTransport.broadcast(data, serverName): the streams' outputs
\* after writing data to every live handle of serverName.
broadcast_front(out, data, serverName) ==
    [h \in Streams |->
        IF h \in sseStreams /\ (serverName = NULL \/ streams[h].provider = serverName)
        THEN <<data>> \o out[h] ELSE out[h]]
broadcast_all(out, data, serverName) ==
    [h \in Streams |-> IF h \in sseStreams THEN Append(out[h], data) ELSE out[h]]
broadcast(out, data, serverName) ==
    [h \in Streams |->
        IF h \in sseStreams /\ (serverName = NULL \/ streams[h].provider = serverName)
        THEN Append(out[h], data) ELSE out[h]]

\* rehydrateServerToolsFromDb's continuation: every provider of the url
\* with a non-empty saved catalog gets it as its in-memory catalog.
Rehydrated(cache, all, url) ==
    [s \in Providers |->
        IF s \in ServersAt(url) /\ all[s] # NoTools THEN all[s] ELSE cache[s]]

\* A getAllServerTools() query sent to the database and not yet answered.
PendingRead(url) == [url |-> url, read |-> FALSE, all |-> [s \in Providers |-> NoTools]]

\* discoveryInProgressByUrl.get(url) is set
DiscoveryRunning_never(url) == FALSE
DiscoveryRunning(url) == url \in discoveryInProgress

\* The "endpoint" listener of the upstream EventSource, and with it the
\* orchestrator's endpointReady listener: the provider's catalog is dropped,
\* the client transport is told, saved catalogs are rehydrated (at once with
\* better-sqlite3, whose query runs inside the call; later with pg), and a
\* discovery handshake is started unless one is running for the url.
OnEndpoint(p) ==
    /\ announced[p] < MaxReady
    /\ announced' = [announced EXCEPT ![p] = @ + 1]
    /\ remotePostUrl' = [remotePostUrl EXCEPT ![p] = PostUrl(p)]
    /\ remoteReadyByServer' = remoteReadyByServer \cup {p}
    /\ streamOut' = broadcast(streamOut, EndpointLine(p), p)
    /\ IF backend = "sqlite"
       THEN /\ toolsListCache' = Rehydrated([toolsListCache EXCEPT ![p] = NoTools],
                                            persistedTools, ServerUrl(p))
            /\ UNCHANGED rehydrating
       ELSE /\ toolsListCache' = [toolsListCache EXCEPT ![p] = NoTools]
            /\ rehydrating' = rehydrating \cup {PendingRead(ServerUrl(p))}
    /\ IF DiscoveryRunning(ServerUrl(p))
       THEN UNCHANGED <<discoveryInProgress, handshakes>>
       ELSE /\ discoveryInProgress' = discoveryInProgress \cup {ServerUrl(p)}
            /\ handshakes' = [handshakes EXCEPT ![ServerUrl(p)] = @ + 1]
    /\ UNCHANGED <<policyTable, sinkMode, adminVars, sendVars, esVars, received,
                   settled, listeners, storageDown, pmVars, postVars, connVars,
                   persistedTools, pendingSaves, lastResolved>>

EndpointReady(p) == OnEndpoint(p) /\ UNCHANGED lateVars

----------------------------------------------------------------------------
(* One submission: POST /:mcpId/messages, the postRequest listener and     *)
(* handlePostMessage                                                       *)

NoSub == [body |-> EmptyText, serverName |-> NULL, agentId |-> NULL, url |-> NULL]
NoResult == [kind |-> "none", status |-> 0, body |-> EmptyText]
Handled(status, body) == [kind |-> "handled", status |-> status, body |-> body]
Forward(bodyToSend) == [kind |-> "forward", status |-> 0, body |-> bodyToSend]

Response(status, body) == [status |-> status, body |-> body]
NotReady == Response(503, PlainText("Remote MCP not ready"))
ProxyError == Response(500, PlainText("Proxy Error"))

\* The `if (replied) return;` guard of the reply callback.
AlreadyReplied_never == FALSE
AlreadyReplied == replied

\* payload.reply(status, responseBody)
reply(r) ==
    IF AlreadyReplied
    THEN UNCHANGED <<replied, httpResponses>>
    ELSE /\ replied' = TRUE
         /\ httpResponses' = Append(httpResponses, r)

\* The request handlePostMessage and processMessage parse from the body.
Request == JSONparse(sub.body)

\* handlePostMessage's toolName: set only for a parsed tools/call request.
ContextToolName(body) ==
    IF ParseOk(body) /\ ~MethodThrows(JSONparse(body))
       /\ MethodOf(JSONparse(body)) = "tools/call"
    THEN ToolNameOf(JSONparse(body)) ELSE NULL

\* The POST route emits postRequest; the listener answers 503 when the
\* provider's upstream has no write URL, else enters handlePostMessage, which
\* reads the URL again and suspends at getPoliciesForContext.
PostRequest(b, p, a) ==
    /\ pc = "idle"
    /\ sub' = [body |-> b, serverName |-> p, agentId |-> a, url |-> getRemotePostUrl(p)]
    /\ IF getRemotePostUrl(p) = NULL
       THEN /\ reply(NotReady)
            /\ pc' = "done"
       ELSE IF sub'.url = NULL
       THEN /\ reply(NotReady)
            /\ pc' = "done"
       ELSE /\ pc' = "resolving"
            /\ UNCHANGED <<replied, httpResponses>>
    /\ UNCHANGED <<upVars, sideVars, policyPlugins, idx, args, evaluated, blockedBy,
                   result, emitted, upstreamWrites, sseOut, discVars, connVars,
                   streamOut>>

\* fetch(url, { method: "POST", headers, body: bodyToSend }): the options
\* carry no signal, no timer is set for the write.
Fetch(bodyToSend) ==
    Append(upstreamWrites, [url |-> sub.url, body |-> bodyToSend, signal |-> NULL])

\* processMessage from buildProcessingEvent on: the event is handed to the
\* sinks and the outcome res is returned once the emission is awaited; an
\* emit that throws rejects processMessage and handlePostMessage's catch
\* answers 500.
EmitThenReturn(event, res) ==
    /\ emitted' = emitted \o EmitAll(1, event)
    /\ IF EmitThrows
       THEN /\ result' = Handled(ProxyError.status, ProxyError.body)
            /\ reply(ProxyError)
            /\ pc' = "done"
       ELSE /\ result' = res
            /\ pc' = "emitted"
            /\ UNCHANGED <<replied, httpResponses>>

\* processMessage's end for a call no policy blocked: the re-serialized
\* request and the ALLOWED event.
AllowCall(a) ==
    EmitThenReturn(buildProcessingEvent(sub.agentId, Request, ToolNameOf(Request),
                                        "ALLOWED", UNDEF, UNDEF, NoReason),
                   Forward(JSONstringify(WithArguments(Request, a))))

\* getPoliciesForContext resolves; the assignments are instantiated and
\* processMessage runs up to its first suspension.
ResolvePolicies ==
    /\ pc = "resolving"
    /\ \E seq \in getPoliciesForContext(policyTable, sub.agentId,
                                        ContextToolName(sub.body), NULL) :
          policyPlugins' = InstantiateAll(seq)
    /\ IF ~ParseOk(sub.body)
       THEN /\ result' = Forward(sub.body)
            /\ upstreamWrites' = Fetch(sub.body)
            /\ pc' = "awaitingUpstream"
            /\ UNCHANGED <<replied, httpResponses, idx, args, emitted>>
       ELSE IF MethodThrows(Request)
       THEN /\ result' = Handled(ProxyError.status, ProxyError.body)
            /\ reply(ProxyError)
            /\ pc' = "done"
            /\ UNCHANGED <<idx, args, emitted, upstreamWrites>>
       ELSE IF MethodOf(Request) # "tools/call"
       THEN /\ result' = Forward(sub.body)
            /\ upstreamWrites' = Fetch(sub.body)
            /\ pc' = "awaitingUpstream"
            /\ UNCHANGED <<replied, httpResponses, idx, args, emitted>>
       ELSE /\ args' = ArgumentsOf(Request)
            /\ IF policyPlugins' = <<>>
               THEN /\ AllowCall(args')
                    /\ UNCHANGED idx
               ELSE /\ idx' = 1
                    /\ pc' = "evaluating"
                    /\ UNCHANGED <<result, emitted, replied, httpResponses>>
            /\ UNCHANGED upstreamWrites
    /\ UNCHANGED <<upVars, sideVars, sub, evaluated, blockedBy, sseOut, discVars,
                   connVars, streamOut>>

\* The body of processMessage's loop, run on the result of
\* policy.evaluate({toolName, args}).
LoopBody ==
    /\ pc = "evaluating"
    /\ LET plugin == policyPlugins[idx]
           toolName == ToolNameOf(Request)
           res == Evaluate(plugin, toolName, args)
           merged == IF res.modified_args.has
                     THEN Obj(Spread(args.obj, res.modified_args.obj))
                     ELSE args
       IN /\ evaluated' = Append(evaluated, plugin.row)
          /\ IF res.verdict = "throw"
             THEN /\ result' = Handled(ProxyError.status, ProxyError.body)
                  /\ reply(ProxyError)
                  /\ pc' = "done"
                  /\ UNCHANGED <<idx, args, blockedBy, emitted>>
             ELSE IF res.verdict = "block"
             THEN /\ blockedBy' = plugin.row
                  /\ EmitThenReturn(
                        buildProcessingEvent(sub.agentId, Request, toolName, "BLOCKED",
                                             plugin.name, res.code, res.reason),
                        Handled(200,
                          buildGuardioBlockedResponse(Request.id, toolName, "blocked",
                                                      plugin.name, res.code, res.reason)))
                  /\ UNCHANGED <<idx, args>>
             ELSE /\ args' = merged
                  /\ IF idx = Len(policyPlugins)
                     THEN /\ AllowCall(merged)
                          /\ UNCHANGED idx
                     ELSE /\ idx' = idx + 1
                          /\ UNCHANGED <<result, emitted, pc, replied, httpResponses>>
                  /\ UNCHANGED blockedBy
    /\ UNCHANGED <<upVars, sub, policyPlugins, upstreamWrites, sseOut, discVars,
                   connVars, streamOut>>

\* One iteration of processMessage's loop: policy.evaluate({toolName, args})
\* resolves (or rejects) and the loop body runs on its result.
EvaluatePolicy == LoopBody /\ UNCHANGED sideVars

\* emitProcessingEvent has resolved and processMessage returns: a handled
\* result is sent to the client streams when its body is non-empty and
\* becomes the reply; a forward result is written to the provider.
Deliver ==
    /\ pc = "emitted"
    /\ EmitSettles
    /\ IF result.kind = "handled"
       THEN /\ IF result.body # EmptyText
               THEN /\ sseOut' = Append(sseOut, [message |-> result.body,
                                                serverName |-> sub.serverName])
                    /\ streamOut' = broadcast(streamOut, DataLine(result.body),
                                              sub.serverName)
               ELSE UNCHANGED <<sseOut, streamOut>>
            /\ reply(Response(result.status, result.body))
            /\ pc' = "done"
            /\ UNCHANGED upstreamWrites
       ELSE /\ upstreamWrites' = Fetch(result.body)
            /\ pc' = "awaitingUpstream"
            /\ UNCHANGED <<replied, httpResponses, sseOut, streamOut>>
    /\ UNCHANGED <<upVars, sideVars, sub, policyPlugins, idx, args, evaluated,
                   blockedBy, result, emitted, discVars, connVars>>

\* What the provider's write URL answers: status, text, and the catalog in
\* the text's result.tools (NoTools when it has none).  status 0 stands for
\* a rejected fetch.
UpstreamAnswer(status, text, tools) == [status |-> status, text |-> text, tools |-> tools]
UpstreamAnswers ==
    { UpstreamAnswer(200, PlainText("{result}"), NoTools),
      UpstreamAnswer(200, PlainText("{result:{tools}}"), "T1"),
      UpstreamAnswer(202, PlainText("Accepted"), NoTools),
      UpstreamAnswer(500, PlainText("upstream failure"), NoTools),
      UpstreamAnswer(0, EmptyText, NoTools) }

\* coreRepository.saveServerTools(name, tools) for every name of a set:
\* better-sqlite3 writes inside the call, pg writes later.  A failing call
\* rejects and the rejection is caught and dropped.
saveServerTools(names, tools) ==
    IF storageDown
    THEN UNCHANGED <<persistedTools, pendingSaves>>
    ELSE IF backend = "sqlite"
    THEN /\ persistedTools' = [s \in Providers |->
                                  IF s \in names THEN tools ELSE persistedTools[s]]
         /\ UNCHANGED pendingSaves
    ELSE /\ pendingSaves' = pendingSaves \cup {<<s, tools>> : s \in names}
         /\ UNCHANGED persistedTools

\* methodFromBodyToSend
MethodFromBodyToSend ==
    IF ParseOk(result.body) /\ ~MethodThrows(JSONparse(result.body))
    THEN MethodOf(JSONparse(result.body)) ELSE UNDEF

\* The fetch settles: a tools/list answer carrying a catalog is cached and
\* saved; the provider's status and text become the reply; a rejected fetch
\* becomes 500 "Proxy Error".
UpstreamResponse(ans) ==
    /\ pc = "awaitingUpstream"
    /\ IF ans.status = 0
       THEN /\ reply(ProxyError)
            /\ UNCHANGED <<toolsListCache, persistedTools, pendingSaves>>
       ELSE /\ reply(Response(ans.status, ans.text))
            /\ IF MethodFromBodyToSend = "tools/list" /\ ans.status = 200
                  /\ ans.tools # NoTools
               THEN /\ toolsListCache' = [toolsListCache EXCEPT ![sub.serverName] = ans.tools]
                    /\ saveServerTools({sub.serverName}, ans.tools)
               ELSE UNCHANGED <<toolsListCache, persistedTools, pendingSaves>>
    /\ pc' = "done"
    /\ UNCHANGED <<upVars, sideVars, sub, policyPlugins, idx, args, evaluated,
                   blockedBy, result, emitted, upstreamWrites, sseOut,
                   discoveryInProgress, handshakes, rehydrating, lastResolved,
                   connVars, streamOut>>

\* The listener's catch block runs after a reply was already issued (the
\* send itself threw): it invokes the callback once more.
ReplyAgain ==
    /\ pc = "done"
    /\ replied
    /\ reply(ProxyError)
    /\ pc' = "closed"
    /\ UNCHANGED <<upVars, sideVars, sub, policyPlugins, idx, args, evaluated,
                   blockedBy, result, emitted, upstreamWrites, sseOut, discVars,
                   connVars, streamOut>>

----------------------------------------------------------------------------
(* The state after construction and start-up, and the specification of one *)
(* submission                                                              *)

\* A stream not yet opened.  An opened stream's agent id is a fresh uuid: the
\* model uses the stream's own number for it.
NoStream == [state |-> "unopened", provider |-> NULL, save |-> "none", del |-> "none"]

InitAdmin ==
    /\ instancesTbl = {}
    /\ assignmentsTbl = {}
    /\ adminOps = <<>>

\* No call of SseUrlTransport.send was made.
NoSend ==
    [pc |-> "idle", p |-> NULL, line |-> NULL, endpoint |-> NULL, timer |-> "none",
     timeoutMs |-> 0, status |-> 0, failure |-> "none"]

\* A new PluginManager; no call was made on it.
NoCall == [kind |-> "none", pc |-> "idle", loaded |-> FALSE, ret |-> NULL]

InitPlugins ==
    /\ pmConfig = NULL
    /\ configPath = NULL
    /\ storagePlugins = NULL
    /\ eventSinkPlugins = NULL
    /\ pmCalls = [c \in 1..MaxCalls |-> NoCall]

\* The stdio core after run(): nothing pending, nothing queued, nothing
\* written; n intervention plugins are configured.
NoId == 0
StdioStart(n) ==
    [plugins |-> n, pending |-> NoId, queue |-> <<>>, awaiting |-> <<>>,
     toTool |-> <<>>, toApp |-> <<>>, arrived |-> 0]

\* fetchToolsListViaDiscovery has not been called.
NoProbe == [pc |-> "idle", overall |-> FALSE, wait |-> FALSE, settled |-> FALSE]

\* No get*Plugins call was made; nothing is declared.
NoLoad == [kind |-> "none", cap |-> "none", i |-> 0, instances |-> <<>>, pc |-> "idle",
           ret |-> NULL, n |-> 0]

\* No administrative call was made on the orchestrator.
NoCoreCall == [kind |-> "none", id |-> NULL, pluginName |-> NULL, config |-> CfgNull,
               result |-> "none", n |-> 0]

\* No row of policy_instances with the id; no update awaiting its lookup.
NoInstance == [pluginId |-> NULL, config |-> CfgNull]
NoUpdate == [id |-> NULL, config |-> CfgNull, found |-> NoInstance]

InitCore ==
    /\ instanceRows = [i \in {"i1", "i2"} |-> NoInstance]
    /\ coreCall = NoCoreCall
    /\ pendingUpdate = NoUpdate
    /\ usedIds = {}

InitLoader ==
    /\ pmEntries = <<>>
    /\ pmPolicyPlugins = NULL
    /\ loadCall = NoLoad

InitLate ==
    /\ InitLoader
    /\ InitCore
    /\ evalCalls = <<>>
    /\ lastEvent = [p \in Providers |-> "none"]
    /\ probe = NoProbe
    /\ stdio = StdioStart(0)

InitSend ==
    /\ sendCall = NoSend
    /\ transportOut = <<>>

\* start() has called connectToRemote once for every provider.
InitUpstream ==
    /\ remotePostUrl = [p \in Providers |-> NULL]
    /\ announced = [p \in Providers |-> 0]
    /\ remoteReadyByServer = {}
    /\ remoteEs = [p \in Providers |-> 1]
    /\ retryTimers = [p \in Providers |-> 0]
    /\ connects = [p \in Providers |-> 1]
    /\ reachable = [p \in Providers |-> FALSE]
    /\ received = [p \in Providers |-> <<>>]

InitSubmission ==
    /\ pc = "idle"
    /\ sub = NoSub
    /\ replied = FALSE
    /\ httpResponses = <<>>
    /\ policyPlugins = <<>>
    /\ idx = 0
    /\ args = NoArgs
    /\ evaluated = <<>>
    /\ blockedBy = NoRow
    /\ result = NoResult
    /\ emitted = <<>>
    /\ upstreamWrites = <<>>
    /\ sseOut = <<>>

\* setupEventHandlers has attached the postRequest listener.
InitPost ==
    /\ InitSubmission
    /\ listeners = 1

InitDisc ==
    /\ toolsListCache = [p \in Providers |-> NoTools]
    /\ discoveryInProgress = {}
    /\ handshakes = [u \in Urls |-> 0]
    /\ settled = [u \in Urls |-> 0]
    /\ rehydrating = {}
    /\ pendingSaves = {}
    /\ lastResolved = [url |-> NULL, tools |-> NULL]

InitConnections ==
    /\ sseStreams = {}
    /\ streams = [h \in Streams |-> NoStream]
    /\ streamOut = [h \in Streams |-> <<>>]
    /\ agentsTbl = {}
    /\ providersTbl = {}
    /\ connectionsTbl = {}

\* The storage works.
InitConn ==
    /\ InitConnections
    /\ storageDown = FALSE

Init ==
    /\ InitUpstream
    /\ InitAdmin
    /\ InitSend
    /\ InitPlugins
    /\ InitLate
    /\ sinkMode = AllOk
    /\ InitPost
    /\ InitDisc
    /\ InitConn
    /\ backend = "sqlite"
    /\ persistedTools = [p \in Providers |-> NoTools]
    /\ policyTable \in Tables

\* One submission; each provider announces its endpoint once.
Next ==
    \/ \E p \in Providers : announced[p] = 0 /\ EndpointReady(p)
    \/ \E b \in Bodies, p \in Providers, a \in AgentIds : PostRequest(b, p, a)
    \/ ResolvePolicies
    \/ EvaluatePolicy
    \/ Deliver
    \/ \E ans \in UpstreamAnswers : UpstreamResponse(ans)
    \/ ReplyAgain

Spec == Init /\ [][Next]_vars

----------------------------------------------------------------------------
(* Properties of one submission (specification Spec)                       *)

Submitted == pc # "idle"
Finished == pc \in {"done", "closed"}

\* C1 -- Readiness gating.  A submission made while its provider's write URL
\* is null is answered at once with the 503 "Remote MCP not ready" reply and
\* the handler ends; and once that reply is the submission's response, no
\* policy has been or will be evaluated for it and nothing has been or will
\* be written upstream, also after the provider becomes ready.
C1_ReadinessGating ==
    /\ [][(pc = "idle" /\ pc' # "idle" /\ remotePostUrl[sub'.serverName] = NULL)
            => (/\ pc' = "done"
                /\ httpResponses' = <<NotReady>>
                /\ evaluated' = <<>>
                /\ upstreamWrites' = <<>>)]_vars
    /\ [](httpResponses = <<NotReady>>
            => (Finished /\ evaluated = <<>> /\ upstreamWrites = <<>>
                /\ policyPlugins = <<>> /\ result = NoResult))

\* C1 witness: the 503 was given and the provider became ready afterwards.
C1_Witness ==
    /\ httpResponses = <<NotReady>>
    /\ remotePostUrl[sub.serverName] # NULL
    /\ pc = "closed"

\* The rows of the instantiated plugins, in resolution order.
PluginRows == [i \in 1..Len(policyPlugins) |-> policyPlugins[i].row]

IsPrefix(a, b) == Len(a) <= Len(b) /\ \A i \in 1..Len(a) : a[i] = b[i]

StrictlyDescending(seq) ==
    \A i, j \in 1..Len(seq) : i < j => seq[i].priority > seq[j].priority

\* C2 (as stated) -- the policies evaluated for a call come in strictly
\* descending priority, and a block ends the evaluation and keeps the call
\* from the upstream.
C2_StrictlyDescending ==
    /\ StrictlyDescending(evaluated)
    /\ blockedBy # NoRow =>
          (evaluated[Len(evaluated)] = blockedBy /\ upstreamWrites = <<>>)

\* C2 (amended) -- the policies are evaluated in the order resolved, which is
\* by priority, higher first, rows of equal priority in the order the
\* database returns them; after a block no further policy is evaluated and
\* the call is never written upstream.
C2_OrderAndShortCircuit ==
    /\ PriorityDesc(PluginRows)
    /\ IsPrefix(evaluated, PluginRows)
    /\ blockedBy # NoRow =>
          /\ evaluated[Len(evaluated)] = blockedBy
          /\ upstreamWrites = <<>>
          /\ pc \in {"emitted", "done", "closed"}
    /\ (Finished /\ result.kind = "forward" /\ evaluated # <<>>) =>
          evaluated = PluginRows

\* C2 witness: of two resolved policies of different priority the first
\* blocked, the second was never evaluated, and the submission is finished.
C2_Witness ==
    /\ Finished
    /\ Len(policyPlugins) = 2
    /\ PluginRows[1].priority > PluginRows[2].priority
    /\ evaluated = <<PluginRows[1]>>
    /\ blockedBy = PluginRows[1]

\* request is a well-formed tools/call request
WellFormedCall(body) ==
    /\ ParseOk(body)
    /\ JSONparse(body).kind = "object"
    /\ JSONparse(body).method = "tools/call"

\* C3 (as stated) -- a body that is not a well-formed tools/call request is
\* forwarded byte for byte: processMessage's result is forward with
\* bodyToSend the submitted body, no policy is evaluated, no event is
\* emitted, and the body is what is written upstream.
C3_FailOpen ==
    (Submitted /\ pc # "resolving" /\ sub.url # NULL /\ ~WellFormedCall(sub.body)) =>
        /\ result = Forward(sub.body)
        /\ evaluated = <<>>
        /\ emitted = <<>>
        /\ upstreamWrites = <<[url |-> sub.url, body |-> sub.body, signal |-> NULL]>>

\* C3 witness: the body `null` was answered 500 "Proxy Error" and nothing
\* was written upstream.
C3_Witness ==
    /\ Finished
    /\ sub.body = JsonText("compact", NonObjVal("null"))
    /\ httpResponses = <<ProxyError>>
    /\ upstreamWrites = <<>>

\* C4 (as stated) -- a blocked call's outcome is status 200 with a success
\* envelope echoing the request id, whatever the id; never an empty body.
C4_AlwaysEnvelope ==
    (blockedBy # NoRow /\ Finished) =>
        /\ httpResponses[1].status = 200
        /\ httpResponses[1].body # EmptyText
        /\ httpResponses[1].body.t = "blocked"
        /\ httpResponses[1].body.envelope = "result"

\* The result of the evaluation that blocked the call.
BlockingResult == Evaluate(policyPlugins[idx], ToolNameOf(Request), args)

\* C4 (amended) -- a blocked call's outcome is a handled result with status
\* 200; when the request has an id its body is the success envelope (jsonrpc
\* 2.0, the id echoed, isError, _guardio with policyId, action, and the
\* policy's code and reason when given); when the request has no id (absent
\* or null) the body is empty and nothing is sent on the client streams.
C4_EnvelopeWhenId ==
    (blockedBy # NoRow /\ Finished) =>
        /\ result.kind = "handled"
        /\ httpResponses = <<Response(200, result.body)>>
        /\ IF Request.id \in {UNDEF, NULL}
           THEN result.body = EmptyText /\ sseOut = <<>>
           ELSE /\ result.body.t = "blocked"
                /\ result.body.jsonrpc = "2.0"
                /\ result.body.envelope = "result"
                /\ result.body.id = Request.id
                /\ result.body.requestId = Request.id
                /\ result.body.isError
                /\ result.body.policyId = blockedBy.pluginId
                /\ result.body.action \in {TOOL_BLOCKED, POLICY_VIOLATION}
                /\ result.body.hasCode = (BlockingResult.code # UNDEF)
                /\ result.body.hasCode => result.body.code = BlockingResult.code
                /\ result.body.hasReason = (BlockingResult.reason # NoReason)
                /\ result.body.hasReason => result.body.reason = BlockingResult.reason
                /\ sseOut = <<[message |-> result.body, serverName |-> sub.serverName]>>

\* C4 witness: a blocked call with an id was answered with the envelope.
C4_Witness ==
    /\ blockedBy # NoRow
    /\ Finished
    /\ Request.id = "\"r1\""
    /\ httpResponses[1].body.t = "blocked"
    /\ httpResponses[1].body.hasCode

\* The call was blocked by a deny-regex-parameter rule and the blocked
\* response was built (the request has an id).
RegexBlocked ==
    /\ blockedBy # NoRow
    /\ blockedBy.pluginId = "deny-regex-parameter"
    /\ result.kind = "handled"
    /\ result.body # EmptyText

\* The rule of the blocking policy's stored config that matched the call.
MatchedConfiguredRule ==
    LET rules == blockedBy.config.rules
        hits == {i \in 1..Len(rules) :
                    RuleMatches(policyPlugins[idx].rules[i], ToolNameOf(Request), args)}
    IN rules[CHOOSE k \in hits : \A m \in hits : k <= m]

\* C5 (as stated) -- the blocked response of a rule match has action
\* POLICY_VIOLATION and the code configured on the matching rule.
C5_ViolationAndRuleCode ==
    RegexBlocked =>
        /\ result.body.action = POLICY_VIOLATION
        /\ result.body.code = MatchedConfiguredRule.code

\* C5 (amended) -- the blocked response of a rule match has action
\* TOOL_BLOCKED, code REGEX_POLICY_MATCH (the plugin's fixed code: a rule has
\* no code of its own) and the reason naming the matching rule's pattern.
C5_ToolBlockedFixedCode ==
    RegexBlocked =>
        /\ result.body.action = TOOL_BLOCKED
        /\ result.body.hasCode
        /\ result.body.code = "REGEX_POLICY_MATCH"
        /\ result.body.hasReason
        /\ result.body.reason =
              <<"Input matched policy rule (pattern: ", MatchedConfiguredRule.regex, ").">>

\* C5 witness: get_weather with city "Paris, FR" was blocked by the rule
\* (get_weather, city, ^Paris) and the response was sent.
C5_Witness ==
    /\ RegexBlocked
    /\ Finished
    /\ ToolNameOf(Request) = "get_weather"
    /\ <<"city", "Paris, FR">> \in args.obj
    /\ MatchedConfiguredRule = ParisRule
    /\ httpResponses = <<Response(200, result.body)>>

\* No assignment of the table matches the submission's context.
NoAssignmentMatches ==
    \A r \in policyTable :
        ~RowMatches(r, sub.agentId, ContextToolName(sub.body), NULL)

\* C6 -- Allow pass-through.  A tools/call submission that no assignment
\* matches is written upstream once, with its id, method, tool name and
\* arguments those of the submitted request.
C6_AllowPassThrough ==
    (Submitted /\ WellFormedCall(sub.body) /\ sub.url # NULL /\ NoAssignmentMatches
       /\ pc \in {"awaitingUpstream", "done", "closed"}) =>
        /\ Len(upstreamWrites) = 1
        /\ upstreamWrites[1].url = sub.url
        /\ ParseOk(upstreamWrites[1].body)
        /\ LET sent == JSONparse(upstreamWrites[1].body)
           IN /\ sent.kind = "object"
              /\ sent.id = Request.id
              /\ sent.method = Request.method
              /\ sent.name = Request.name
              /\ ArgumentsOf(sent) = ArgumentsOf(Request)
        /\ evaluated = <<>>

\* C6 witness: a call without arguments, submitted as a text JSON.stringify
\* would not produce, went upstream while the table holds assignments, none
\* of which matches.
C6_Witness ==
    /\ Submitted
    /\ WellFormedCall(sub.body)
    /\ NoAssignmentMatches
    /\ policyTable # {}
    /\ Finished
    /\ Len(upstreamWrites) = 1
    /\ ~ArgumentsOf(Request).has

\* The overrides the i-th evaluated policy returned (NoArgs when none).
Overrides(i) ==
    Evaluate(policyPlugins[i], ToolNameOf(Request), ArgumentsOf(Request)).modified_args

\* The evaluated policies that set key k.
Setters(k) == {i \in 1..Len(evaluated) : Overrides(i).has /\ k \in Keys(Overrides(i).obj)}
Last(S) == CHOOSE i \in S : \A j \in S : j <= i

\* The call was forwarded (no policy blocked it) and written upstream.
CallForwarded ==
    /\ Submitted
    /\ WellFormedCall(sub.body)
    /\ result.kind = "forward"
    /\ Len(upstreamWrites) = 1

\* C7 -- Argument override chaining.  The arguments written upstream have
\* exactly the keys of the original arguments and of every evaluated
\* policy's overrides; a key no policy set keeps its original value, a key
\* set by policies has the value given by the one evaluated last.
C7_OverrideChaining ==
    CallForwarded =>
        LET sent == ArgumentsOf(JSONparse(upstreamWrites[1].body))
            orig == ArgumentsOf(Request)
            overriding == {i \in 1..Len(evaluated) : Overrides(i).has}
            allKeys == Keys(orig.obj) \cup UNION {Keys(Overrides(i).obj) : i \in overriding}
        IN /\ evaluated = PluginRows
           /\ sent.has = (orig.has \/ overriding # {})
           /\ Keys(sent.obj) = allKeys
           /\ Cardinality(sent.obj) = Cardinality(allKeys)
           /\ \A k \in allKeys :
                 ValueAt(sent, k) = IF Setters(k) = {} THEN ValueAt(orig, k)
                                    ELSE ValueAt(Overrides(Last(Setters(k))), k)

\* C7 witness: two policies returned overrides, a key of the original
\* arguments was set by both, another by one only, a third by none.
C7_Witness ==
    /\ CallForwarded
    /\ Finished
    /\ Len(evaluated) = 2
    /\ Overrides(1).has /\ Overrides(2).has
    /\ Setters("units") = {1, 2}
    /\ Setters("lang") = {1}
    /\ HasKey(ArgumentsOf(Request), "units")
    /\ HasKey(ArgumentsOf(Request), "city")
    /\ <<"units", "metric">> \in ArgumentsOf(JSONparse(upstreamWrites[1].body)).obj

\* C10 -- Exactly one reply.  No HTTP response exists while the submission
\* is being processed, exactly one once its handler has ended on whatever
\* path, and a further invocation of the callback leaves it unchanged.
C10_ExactlyOneReply ==
    /\ Len(httpResponses) = IF Finished THEN 1 ELSE 0
    /\ replied = Finished
    /\ Finished =>
          IF sub.url = NULL THEN httpResponses[1] = NotReady
          ELSE IF result.kind = "handled"
          THEN httpResponses[1] = Response(result.status, result.body)
          ELSE \E ans \in UpstreamAnswers :
                  httpResponses[1] = IF ans.status = 0 THEN ProxyError
                                     ELSE Response(ans.status, ans.text)

\* C10 witness: the callback was invoked again after the reply of a
\* forwarded submission, and one response exists.
C10_Witness ==
    /\ pc = "closed"
    /\ result.kind = "forward"
    /\ Len(httpResponses) = 1
    /\ httpResponses[1].status = 202

----------------------------------------------------------------------------
(* Discovery: the handshake's completion, rehydration and saves            *)
(* (specification SpecDisc)                                                *)

\* The handshakes of the url started and not yet settled.
InFlight(url) == handshakes[url] - settled[url]

\* this.discoveryInProgressByUrl.delete(url)
discoveryInProgressDelete_skip(url) == discoveryInProgress
discoveryInProgressDelete(url) == discoveryInProgress \ {url}

\* fetchToolsListViaDiscovery settles with a catalog, or with null on a
\* timeout, a network error or an answer without tools.  The finally
\* callback clears the url's entry, then the then-callbacks of the readiness
\* events that started or joined the handshake run: on a catalog, every
\* provider configured with the url gets it in memory and has it saved.
OnResolve(url, tools) ==
    /\ InFlight(url) > 0
    /\ settled' = [settled EXCEPT ![url] = @ + 1]
    /\ discoveryInProgress' = discoveryInProgressDelete(url)
    /\ lastResolved' = [url |-> url, tools |-> tools]
    /\ IF tools # NULL
       THEN /\ toolsListCache' = [s \in Providers |->
                                    IF s \in ServersAt(url) THEN tools
                                    ELSE toolsListCache[s]]
            /\ saveServerTools(ServersAt(url), tools)
       ELSE UNCHANGED <<toolsListCache, persistedTools, pendingSaves>>
    /\ UNCHANGED <<upVars, policyTable, sinkMode, adminVars, sendVars, esVars,
                   received, listeners, storageDown, pmVars, postVars, connVars,
                   streamOut, handshakes, rehydrating>>

DiscoveryResolves(url, tools) == OnResolve(url, tools) /\ UNCHANGED lateVars

\* pg answers a getAllServerTools() query with the catalogs saved by then.
RehydrateRead(r) ==
    /\ r \in rehydrating
    /\ ~r.read
    /\ rehydrating' = (rehydrating \ {r}) \cup {[r EXCEPT !.read = TRUE, !.all = persistedTools]}
    /\ UNCHANGED <<upVars, sideVars, postVars, connVars, streamOut, toolsListCache,
                   persistedTools, discoveryInProgress, handshakes, pendingSaves,
                   lastResolved>>

\* The continuation of rehydrateServerToolsFromDb runs on the answer.
RehydrateApply(r) ==
    /\ r \in rehydrating
    /\ r.read
    /\ rehydrating' = rehydrating \ {r}
    /\ toolsListCache' = Rehydrated(toolsListCache, r.all, r.url)
    /\ UNCHANGED <<upVars, sideVars, postVars, connVars, streamOut, persistedTools,
                   discoveryInProgress, handshakes, pendingSaves, lastResolved>>

\* pg executes a saveServerTools(name, tools) sent earlier.
SaveApplied(sv) ==
    /\ sv \in pendingSaves
    /\ pendingSaves' = pendingSaves \ {sv}
    /\ persistedTools' = [persistedTools EXCEPT ![sv[1]] = sv[2]]
    /\ UNCHANGED <<upVars, sideVars, postVars, connVars, streamOut, toolsListCache,
                   discoveryInProgress, handshakes, rehydrating, lastResolved>>

\* Catalogs a previous run may have saved.
SavedCatalogs == {NoTools, "T0"}

InitDiscSpec ==
    /\ InitUpstream
    /\ InitAdmin
    /\ InitSend
    /\ InitPlugins
    /\ InitLate
    /\ sinkMode = AllOk
    /\ InitPost
    /\ InitDisc
    /\ InitConn
    /\ backend \in {"sqlite", "postgres"}
    /\ persistedTools \in [Providers -> SavedCatalogs]
    /\ policyTable = {}

NextDisc ==
    \/ \E p \in Providers : EndpointReady(p)
    \/ \E u \in Urls, tools \in {NULL} \cup Catalogs : DiscoveryResolves(u, tools)
    \/ \E r \in rehydrating : RehydrateRead(r)
    \/ \E r \in rehydrating : RehydrateApply(r)
    \/ \E sv \in pendingSaves : SaveApplied(sv)

SpecDisc == InitDiscSpec /\ [][NextDisc]_vars

\* C8 (as stated) -- two providers at one address: exactly one handshake in
\* total, and once it has succeeded both catalogs equal its result.
C8_ExactlyOneHandshake ==
    /\ \A u \in Urls : handshakes[u] <= 1
    /\ lastResolved.tools # NULL =>
          \A s \in ServersAt(lastResolved.url) : toolsListCache[s] = lastResolved.tools

\* C8 (amended) -- a handshake for an address starts only while none is in
\* flight for it (a readiness event arriving meanwhile joins the one in
\* flight; one arriving after its completion starts another), and at the
\* moment a handshake succeeds the catalogs of all providers configured with
\* the address are set to its result.
C8_OneHandshakeInFlight ==
    [][\A u \in Urls :
          /\ handshakes'[u] # handshakes[u] =>
                (u \notin discoveryInProgress /\ u \in discoveryInProgress'
                 /\ handshakes'[u] = handshakes[u] + 1)
          /\ (u \in discoveryInProgress /\ u \notin discoveryInProgress'
              /\ lastResolved'.tools # NULL) =>
                \A s \in ServersAt(u) : toolsListCache'[s] = lastResolved'.tools
          /\ (u \in discoveryInProgress /\ u \in discoveryInProgress') =>
                handshakes'[u] = handshakes[u]]_vars

\* C8 witness: both providers became ready, the second while the first's
\* handshake was in flight; the one handshake succeeded and both catalogs
\* hold its result.
C8_Witness ==
    /\ \A p \in Providers : announced[p] = 1
    /\ \A u \in Urls : handshakes[u] = 1
    /\ discoveryInProgress = {}
    /\ lastResolved.tools = "T1"
    /\ \A p \in Providers : toolsListCache[p] = "T1"

----------------------------------------------------------------------------
(* Client streams and the repository's agent and connection records        *)
(* (specification SpecConn)                                                *)

\* The rows of connections that belong to agent h.
ConnectionsOf(tbl, h) == {c \in tbl : c[1] = h}

\* this.remoteReadyByServer.has(mcpId)
remoteReadyHas_never(p) == FALSE
remoteReadyHas(p) == p \in remoteReadyByServer

\* saveAgent is an async function: a failing statement rejects the promise
\* it returned, on which the handler has put a catch that logs; it does not
\* throw into the handler.
SaveAgentThrows_sync == storageDown
SaveAgentThrows == FALSE

\* GET /:mcpId/sse: the handle is created, saveAgent is called and not
\* awaited, the handle joins sseStreams and, when the provider is ready, the
\* endpoint line is written.  better-sqlite3 runs saveAgent's statements
\* inside the call; with pg the first query is sent.  With the storage down
\* the call fails at its first statement.
OpenStream(h, p) ==
    /\ streams[h].state = "unopened"
    /\ sseStreams' = IF SaveAgentThrows THEN sseStreams ELSE sseStreams \cup {h}
    /\ streamOut' = [streamOut EXCEPT ![h] =
                        IF ~SaveAgentThrows /\ remoteReadyHas(p)
                        THEN Append(@, EndpointLine(p)) ELSE @]
    /\ IF storageDown
       THEN /\ streams' = [streams EXCEPT ![h] =
                              [state |-> "open", provider |-> p, save |-> "failed", del |-> "none"]]
            /\ UNCHANGED <<agentsTbl, providersTbl, connectionsTbl>>
       ELSE IF backend = "sqlite"
       THEN /\ agentsTbl' = agentsTbl \cup {h}
            /\ providersTbl' = providersTbl \cup {p}
            /\ connectionsTbl' = connectionsTbl \cup {<<h, p>>}
            /\ streams' = [streams EXCEPT ![h] =
                              [state |-> "open", provider |-> p, save |-> "done", del |-> "none"]]
       ELSE /\ streams' = [streams EXCEPT ![h] =
                              [state |-> "open", provider |-> p, save |-> "s1", del |-> "none"]]
            /\ UNCHANGED <<agentsTbl, providersTbl, connectionsTbl>>
    /\ UNCHANGED <<upVars, sideVars, postVars, discVars, backend>>

\* this.sseStreams.delete(handle)
sseStreamsDelete_skip(h) == sseStreams
sseStreamsDelete(h) == sseStreams \ {h}

\* The request's "close" event, whatever ended the stream: the handle leaves
\* sseStreams and deleteConnection is called and not awaited.
CloseStream(h) ==
    /\ streams[h].state = "open"
    /\ sseStreams' = sseStreamsDelete(h)
    /\ IF backend = "sqlite"
       THEN LET p == streams[h].provider
                conns == IF p \in providersTbl THEN connectionsTbl \ {<<h, p>>}
                         ELSE connectionsTbl
            IN /\ IF ConnectionsOf(conns, h) = {}
                  THEN /\ agentsTbl' = agentsTbl \ {h}
                       /\ connectionsTbl' = conns
                  ELSE /\ connectionsTbl' = conns
                       /\ UNCHANGED agentsTbl
               /\ streams' = [streams EXCEPT ![h].state = "closed", ![h].del = "done"]
       ELSE /\ streams' = [streams EXCEPT ![h].state = "closed", ![h].del = "d1"]
            /\ UNCHANGED <<agentsTbl, connectionsTbl>>
    /\ UNCHANGED <<upVars, sideVars, postVars, discVars, backend, providersTbl,
                   streamOut>>

\* PostgresCoreRepository.saveAgent: pg executes the query the call is
\* waiting for and the call goes on to its next one.
\*   s1 upsert into agents            s2 insert into resource_providers
\*   s3 select the provider's id      s4 insert into connections (the agent
\*                                       must exist: foreign key)
SaveAgentStep(h) ==
    /\ backend = "postgres"
    /\ LET p == streams[h].provider
           at == streams[h].save
       IN CASE at = "s1" ->
                 /\ agentsTbl' = agentsTbl \cup {h}
                 /\ streams' = [streams EXCEPT ![h].save = "s2"]
                 /\ UNCHANGED <<providersTbl, connectionsTbl>>
            [] at = "s2" ->
                 /\ providersTbl' = providersTbl \cup {p}
                 /\ streams' = [streams EXCEPT ![h].save = "s3"]
                 /\ UNCHANGED <<agentsTbl, connectionsTbl>>
            [] at = "s3" ->
                 /\ streams' = [streams EXCEPT ![h].save =
                                   IF p \in providersTbl THEN "s4" ELSE "failed"]
                 /\ UNCHANGED <<agentsTbl, providersTbl, connectionsTbl>>
            [] at = "s4" ->
                 /\ IF h \in agentsTbl
                    THEN /\ connectionsTbl' = connectionsTbl \cup {<<h, p>>}
                         /\ streams' = [streams EXCEPT ![h].save = "done"]
                    ELSE /\ streams' = [streams EXCEPT ![h].save = "failed"]
                         /\ UNCHANGED connectionsTbl
                 /\ UNCHANGED <<agentsTbl, providersTbl>>
            [] OTHER -> FALSE
    /\ UNCHANGED <<upVars, sideVars, postVars, discVars, backend, sseStreams,
                   streamOut>>

\* PostgresCoreRepository.deleteConnection, query by query.
\*   d1 select the provider's id      d2 delete the connection
\*   d3 select the agent's remaining connections
\*   d4 delete the agent (its connections cascade)
DeleteConnectionStep(h) ==
    /\ backend = "postgres"
    /\ LET p == streams[h].provider
           at == streams[h].del
       IN CASE at = "d1" ->
                 /\ streams' = [streams EXCEPT ![h].del =
                                   IF p \in providersTbl THEN "d2" ELSE "d3"]
                 /\ UNCHANGED <<agentsTbl, connectionsTbl>>
            [] at = "d2" ->
                 /\ connectionsTbl' = connectionsTbl \ {<<h, p>>}
                 /\ streams' = [streams EXCEPT ![h].del = "d3"]
                 /\ UNCHANGED agentsTbl
            [] at = "d3" ->
                 /\ streams' = [streams EXCEPT ![h].del =
                                   IF ConnectionsOf(connectionsTbl, h) = {} THEN "d4"
                                   ELSE "done"]
                 /\ UNCHANGED <<agentsTbl, connectionsTbl>>
            [] at = "d4" ->
                 /\ agentsTbl' = agentsTbl \ {h}
                 /\ connectionsTbl' = connectionsTbl \ ConnectionsOf(connectionsTbl, h)
                 /\ streams' = [streams EXCEPT ![h].del = "done"]
            [] OTHER -> FALSE
    /\ UNCHANGED <<upVars, sideVars, postVars, discVars, backend, sseStreams,
                   providersTbl, streamOut>>

InitConnSpec ==
    /\ InitUpstream
    /\ InitAdmin
    /\ InitSend
    /\ InitPlugins
    /\ InitLate
    /\ sinkMode = AllOk
    /\ InitPost
    /\ InitDisc
    /\ InitConn
    /\ backend \in {"sqlite", "postgres"}
    /\ persistedTools = [p \in Providers |-> NoTools]
    /\ policyTable = {}

NextConn ==
    \/ \E p \in Providers : EndpointReady(p)
    \/ \E h \in Streams, p \in Providers : OpenStream(h, p)
    \/ \E h \in Streams : CloseStream(h)
    \/ \E h \in Streams : SaveAgentStep(h)
    \/ \E h \in Streams : DeleteConnectionStep(h)

SpecConn == InitConnSpec /\ [][NextConn]_vars

\* The calls made for stream h have all ended.
Settled(h) ==
    /\ streams[h].state = "closed"
    /\ streams[h].save \in {"done", "failed"}
    /\ streams[h].del = "done"

\* C9 (as stated) -- no closed stream leaves a connection record behind:
\* once a stream is closed and the repository calls made for it have ended
\* (nothing else will ever touch its records), its connection record is
\* absent.
C9_NoRecordLeft ==
    \A h \in Streams :
        Settled(h) => <<h, streams[h].provider>> \notin connectionsTbl

\* C9 witness: with pg, a stream closed while its agent was being saved has
\* its connection record, and its agent record, left in the repository.
C9_Witness ==
    \E h \in Streams :
        /\ backend = "postgres"
        /\ Settled(h)
        /\ <<h, streams[h].provider>> \in connectionsTbl
        /\ h \in agentsTbl

----------------------------------------------------------------------------------------------------------------------------------------
(* The bound on the upstream write                                         *)

\* C11 (as stated) -- Bounded upstream write.  A call written upstream is
\* cancelled when the provider's timeout (30 s unless configured) elapses:
\* while the handler waits for the provider's answer, the write carries the
\* abort signal of a pending timer, so that a reply follows also when the
\* provider never answers.
C11_WriteIsBounded ==
    (pc = "awaitingUpstream") =>
        \A i \in 1..Len(upstreamWrites) : upstreamWrites[i].signal # NULL

\* C11 witness: a call was written upstream without signal, the provider
\* has not answered, and the handler has no reply and no timer pending.
C11_Witness ==
    /\ pc = "awaitingUpstream"
    /\ Len(upstreamWrites) = 1
    /\ upstreamWrites[1].signal = NULL
    /\ httpResponses = <<>>
    /\ ~replied

----------------------------------------------------------------------------
(* The reply to a failed upstream write                                    *)

\* A reply the handler made up itself: none of the provider's answers was
\* copied into it.
GatewayMade(r) ==
    \A ans \in UpstreamAnswers : ans.status = 0 \/ r # Response(ans.status, ans.text)

\* A protocol-shaped error: the text of { jsonrpc: "2.0", id, error }.
ProtocolShapedError(body) == body.t = "jsonrpc-error"

\* C12 (as stated) -- Protocol-shaped transport failure.  When the write of
\* a forwarded submission fails at the network level, the reply the client
\* gets carries a JSON-RPC error message and no HTTP failure status.
C12_FailureIsProtocolShaped ==
    (/\ Finished
     /\ result.kind = "forward"
     /\ Len(upstreamWrites) = 1
     /\ GatewayMade(httpResponses[1]))
        => /\ httpResponses[1].status < 400
           /\ ProtocolShapedError(httpResponses[1].body)

\* C12 witness: the write was made, the fetch was rejected, and the reply
\* is the status 500 with the plain text "Proxy Error".
C12_Witness ==
    /\ Finished
    /\ result.kind = "forward"
    /\ Len(upstreamWrites) = 1
    /\ httpResponses = <<ProxyError>>

----------------------------------------------------------------------------
(* Live client streams, one submission and the upstream's messages         *)
(* (specification SpecRelay)                                               *)

MaxLines == 2       \* lines written to one client stream

\* The uuid of stream h's handle; the client sends it as x-agent-id.
HandleIds == <<"a1", "a2", "a3", "a4">>
HandleId(h) == HandleIds[h]

\* A message read from provider p's upstream stream: the response to the
\* request with id `answers`, with the catalog of its result.tools (NoTools
\* when it has none).
UpstreamMessage(p, answers, tools) ==
    [t |-> "upstream", from |-> p, answers |-> answers, tools |-> tools]
UpstreamMessages(p) ==
    { UpstreamMessage(p, "7", NoTools),
      UpstreamMessage(p, "1", "T2") }

\* transport.on("message"): tryCacheToolsFromSseMessage, then
\* clientTransport.send(line, serverName), which broadcasts the data line.
OnMessage(p, m) ==
    /\ IF m.tools # NoTools
       THEN /\ toolsListCache' = [toolsListCache EXCEPT ![p] = m.tools]
            /\ saveServerTools({p}, m.tools)
       ELSE UNCHANGED <<toolsListCache, persistedTools, pendingSaves>>
    /\ streamOut' = broadcast(streamOut, DataLine(m), p)
    /\ UNCHANGED <<upVars, postVars, discoveryInProgress, handshakes, rehydrating,
                   lastResolved, connVars>>

Relay(p, m) ==
    /\ \A h \in Streams : Len(streamOut[h]) < MaxLines
    /\ OnMessage(p, m)
    /\ UNCHANGED sideVars

\* The submissions of this specification: a call the table's policy blocks
\* and a call it lets through.
RelayBodies ==
    { JsonText("compact", Call("\"r1\"", "send_mail", TRUE, {<<"to", "bob">>})),
      JsonText("spaced", Call("7", "get_weather", TRUE, OsloArgs)) }

\* What a provider speaking over SSE answers to the write: 202 Accepted
\* (its response comes on the stream), or the fetch is rejected.
RelayAnswers == {ans \in UpstreamAnswers : ans.status \in {202, 0}}

InitRelay ==
    /\ InitUpstream
    /\ InitAdmin
    /\ InitSend
    /\ InitPlugins
    /\ InitLate
    /\ sinkMode = AllOk
    /\ InitPost
    /\ InitDisc
    /\ InitConn
    /\ backend = "sqlite"
    /\ persistedTools = [p \in Providers |-> NoTools]
    /\ policyTable =
          {Row(Template("deny-mail", "deny-tool-access", CfgEmpty, NULL, NULL, "send_mail"), 0)}

\* Streams are numbered in the order their clients connect; the
\* submission is made by the client of the first one.
InOpeningOrder(h) == \A g \in 1..(h - 1) : streams[g].state # "unopened"

NextRelay ==
    \/ \E p \in Providers : EndpointReady(p)
    \/ \E h \in Streams, p \in Providers : InOpeningOrder(h) /\ OpenStream(h, p)
    \/ \E b \in RelayBodies, p \in Providers : PostRequest(b, p, HandleId(1))
    \/ ResolvePolicies
    \/ EvaluatePolicy
    \/ Deliver
    \/ \E ans \in RelayAnswers : UpstreamResponse(ans)
    \/ \E p \in Providers : \E m \in UpstreamMessages(p) : Relay(p, m)

SpecRelay == InitRelay /\ [][NextRelay]_vars

\* The lines of stream h that answer the submission: the blocked-call
\* response, or the provider's response to the forwarded call.
AnswersSubmission(line) ==
    /\ line.kind = "data"
    /\ \/ line.data.t = "blocked"
       \/ /\ line.data.t = "upstream"
          /\ result.kind = "forward"
          /\ Len(upstreamWrites) = 1
          /\ line.data.from = sub.serverName
          /\ line.data.answers = Request.id

\* C13 (as stated) -- Response routing.  A response to a submission that
\* names its agent is written on the stream of that agent and on no stream
\* of another agent, also when that agent is subscribed to the same provider.
C13_OriginatingStreamOnly ==
    \A h \in Streams : \A i \in 1..Len(streamOut[h]) :
        (Submitted /\ sub.agentId # NULL /\ AnswersSubmission(streamOut[h][i]))
            => HandleId(h) = sub.agentId

\* C13 witness: agent a1's call was blocked and the blocked-call response
\* is on the stream of another agent subscribed to the same provider.
C13_Witness ==
    /\ Finished
    /\ sub.agentId = "a1"
    /\ blockedBy # NoRow
    /\ \E h \in Streams :
          /\ HandleId(h) # "a1"
          /\ streams[h].provider = sub.serverName
          /\ \E i \in 1..Len(streamOut[h]) : streamOut[h][i] = DataLine(result.body)

\* The provider a line was pushed for: the provider named in an endpoint
\* line, the provider whose upstream stream a relayed message came from,
\* the provider of the submission a blocked-call response answers.
PushedFor(line) ==
    IF line.kind = "endpoint" THEN line.data
    ELSE IF line.data.t = "upstream" THEN line.data.from
    ELSE sub.serverName

\* C14 -- Provider isolation of broadcasts.  Every line on a client stream
\* was pushed for the provider the stream is subscribed to: a line pushed
\* with provider filter P reaches no stream subscribed to another provider.
C14_ProviderIsolation ==
    \A h \in Streams : \A i \in 1..Len(streamOut[h]) :
        PushedFor(streamOut[h][i]) = streams[h].provider

\* C14 witness: two live streams subscribed to different providers, a
\* message relayed from the first one's provider is on the first stream,
\* and the second stream has its own provider's endpoint line only.
C14_Witness ==
    \E g, h \in Streams :
        /\ {g, h} \subseteq sseStreams
        /\ streams[g].provider # streams[h].provider
        /\ streamOut[h] = <<EndpointLine(streams[h].provider)>>
        /\ Len(streamOut[g]) = 2
        /\ streamOut[g][1] = EndpointLine(streams[g].provider)
        /\ streamOut[g][2].kind = "data"
        /\ streamOut[g][2].data.t = "upstream"

----------------------------------------------------------------------------
(* Audit events (specifications Spec and SpecSink)                         *)

\* The submission is a parsed request of method tools/call.
IsToolsCall ==
    /\ ParseOk(sub.body)
    /\ ~MethodThrows(Request)
    /\ MethodOf(Request) = "tools/call"

\* processMessage reached its decision on the call: a policy blocked it, or
\* every policy was evaluated and none did.
DecidedBlocked == Submitted /\ IsToolsCall /\ blockedBy # NoRow
DecidedAllowed == Submitted /\ IsToolsCall /\ blockedBy = NoRow /\ result.kind = "forward"

InitSink ==
    /\ InitUpstream
    /\ InitAdmin
    /\ InitSend
    /\ InitPlugins
    /\ InitLate
    /\ sinkMode \in [1..MaxSinks -> SinkModes]
    /\ InitPost
    /\ InitDisc
    /\ InitConn
    /\ backend = "sqlite"
    /\ persistedTools = [p \in Providers |-> NoTools]
    /\ policyTable \in
          { {},
            {Row(Template("deny-mail", "deny-tool-access", CfgEmpty, NULL, NULL, "send_mail"), 0)} }

SpecSink == InitSink /\ [][Next]_vars

\* C16 (as stated) -- Fire-and-forget emission.  Whatever a sink's emit
\* does (fail, throw, never complete), the handler's next step after the
\* decision is not held back, and a blocked call is answered with status 200
\* and its blocked-call response.
C16_ReplyIndependentOfSinks ==
    /\ (pc = "emitted") => ENABLED Deliver
    /\ (Finished /\ DecidedBlocked) =>
          httpResponses[1] =
             Response(200, buildGuardioBlockedResponse(Request.id, ToolNameOf(Request),
                              "blocked", policyPlugins[idx].name,
                              BlockingResult.code, BlockingResult.reason))

\* C16 witness: the decision is made, a sink's emit never completes, and
\* the handler has no reply and no step to take.
C16_Witness ==
    /\ pc = "emitted"
    /\ \E k \in 1..MaxSinks : sinkMode[k] = "hangs"
    /\ httpResponses = <<>>
    /\ ~ENABLED Deliver

----------------------------------------------------------------------------
(* The registry of live streams (specification SpecStreams)                *)

\* Streams are opened and closed and endpoints announced; the repository is
\* SQLite, whose calls end inside the handlers.
InitStreams ==
    /\ InitUpstream
    /\ InitAdmin
    /\ InitSend
    /\ InitPlugins
    /\ InitLate
    /\ sinkMode = AllOk
    /\ InitPost
    /\ InitDisc
    /\ InitConn
    /\ backend = "sqlite"
    /\ persistedTools = [p \in Providers |-> NoTools]
    /\ policyTable = {}

NextStreams ==
    \/ \E p \in Providers : EndpointReady(p)
    \/ \E h \in Streams, p \in Providers : OpenStream(h, p)
    \/ \E h \in Streams : CloseStream(h)

SpecStreams == InitStreams /\ [][NextStreams]_vars

\* The client streams whose underlying connection is open.
OpenConnections == {h \in Streams : streams[h].state = "open"}

\* C17 -- Live-handle invariant.  At every moment the registry holds the
\* handles of exactly the streams whose connection is open: no handle of a
\* closed connection remains and no open connection lacks its handle.
C17_LiveHandles == sseStreams = OpenConnections

\* C17 witness: one stream was opened and closed, another is open, and the
\* registry holds the open one only.
C17_Witness ==
    \E g, h \in Streams :
        /\ streams[g].state = "closed"
        /\ streams[h].state = "open"
        /\ sseStreams = {h}

----------------------------------------------------------------------------
(* Scope matching (specification Spec)                                     *)

\* The assignments whose plugins handlePostMessage built for the submission.
Applied == {policyPlugins[i].row : i \in 1..Len(policyPlugins)}

\* The assignments were resolved for a tools/call submission.
CallResolved ==
    /\ Submitted
    /\ sub.url # NULL
    /\ pc # "resolving"
    /\ IsToolsCall

\* C18 (as stated) -- Policy scope matching.  For a tools/call submission
\* the applied assignments are exactly those whose agent, tool-name and
\* provider scopes are each null or equal to the submission's agent id,
\* tool name and provider (among the assignments whose plugin can be built).
C18_ScopesOfSubmission ==
    CallResolved =>
        \A r \in policyTable :
            Usable(r) =>
                (r \in Applied <=>
                    RowMatches(r, sub.agentId, ToolNameOf(Request), sub.serverName))

\* C18 witness: a tools/call sent to provider p1 while an assignment scoped
\* to p1 is stored, and the assignment was not applied.
C18_Witness ==
    /\ CallResolved
    /\ sub.serverName = "p1"
    /\ \E r \in policyTable :
          /\ Usable(r)
          /\ r.providerScope = "p1"
          /\ r.agentScope = NULL
          /\ r.toolScope = NULL
          /\ r \notin Applied

----------------------------------------------------------------------------
(* Administration of policy instances and assignments                      *)
(* (specification SpecAdmin)                                               *)

MaxOps == 3         \* administrative calls made in a behaviour
PolicyIds == {"i1", "i2"}

\* policy_assignments.policy_instance_id REFERENCES policy_instances(id):
\* an INSERT naming an absent instance is refused by the database.
ForeignKeyHolds_off(instances, i) == TRUE
ForeignKeyHolds(instances, i) == i \in instances

AdminKinds == {"create", "update", "delete", "assign", "unassign"}
Terminal == {"done", "failed", "notfound"}

\* The k-th call: its kind, the instance id it names, the assignment id it
\* names (deletePolicyAssignment), and the statement it runs next.  The
\* assignment a call inserts has the call's number as its uuid.
AdminOp(kind, i, a) ==
    [kind |-> kind, inst |-> i, asg |-> a,
     step |-> IF kind = "update" THEN "check" ELSE "q1"]

DbState(instances, assignments, step) ==
    [inst |-> instances, asg |-> assignments, step |-> step]

\* INSERT INTO policy_assignments (id, policy_instance_id, ...)
InsertAssignment(T, k, i) ==
    IF ForeignKeyHolds(T.inst, i)
    THEN DbState(T.inst, T.asg \cup {[id |-> k, policyInstanceId |-> i]}, "done")
    ELSE DbState(T.inst, T.asg, "failed")

\* DELETE FROM policy_assignments WHERE policy_instance_id = i
WithoutAssignmentsOf(assignments, i) == {r \in assignments : r.policyInstanceId # i}

\* The next statement of call k, run on the tables T.
ExecQuery(op, k, T) ==
    CASE op.kind = "create" /\ op.step = "q1" ->
            DbState(T.inst \cup {op.inst}, T.asg, "q2")
      [] op.kind = "create" /\ op.step = "q2" -> InsertAssignment(T, k, op.inst)
      [] op.kind = "update" /\ op.step = "check" ->
            DbState(T.inst, T.asg, IF op.inst \in T.inst THEN "q1" ELSE "notfound")
      [] op.kind = "update" /\ op.step = "q1" -> DbState(T.inst, T.asg, "q2")
      [] op.kind = "update" /\ op.step = "q2" ->
            DbState(T.inst, WithoutAssignmentsOf(T.asg, op.inst), "q3")
      [] op.kind = "update" /\ op.step = "q3" -> InsertAssignment(T, k, op.inst)
      [] op.kind = "delete" /\ op.step = "q1" ->
            DbState(T.inst, WithoutAssignmentsOf(T.asg, op.inst), "q2")
      [] op.kind = "delete" /\ op.step = "q2" ->
            DbState(T.inst \ {op.inst}, WithoutAssignmentsOf(T.asg, op.inst), "done")
      [] op.kind = "assign" /\ op.step = "q1" -> InsertAssignment(T, k, op.inst)
      [] op.kind = "unassign" /\ op.step = "q1" ->
            DbState(T.inst, {r \in T.asg : r.id # op.asg}, "done")

\* better-sqlite3 runs every statement of a call inside the call.
RECURSIVE RunAll(_, _, _)
RunAll(op, k, T) ==
    IF op.step \in Terminal THEN T
    ELSE LET R == ExecQuery(op, k, T)
         IN RunAll([op EXCEPT !.step = R.step], k, R)

\* An administrative call is made: createPolicyInstance (with a new uuid),
\* GuardioCore.updatePolicyInstance, deletePolicyInstance, assignPolicy or
\* deletePolicyAssignment.  With pg its statements run one by one later.
StartAdmin(kind, i, a) ==
    /\ Len(adminOps) < MaxOps
    /\ kind = "create" =>
          /\ i \notin instancesTbl
          /\ \A j \in 1..Len(adminOps) : ~(adminOps[j].kind = "create" /\ adminOps[j].inst = i)
    /\ LET op == AdminOp(kind, i, a)
           k == Len(adminOps) + 1
       IN IF backend = "sqlite"
          THEN LET R == RunAll(op, k, DbState(instancesTbl, assignmentsTbl, op.step))
               IN /\ instancesTbl' = R.inst
                  /\ assignmentsTbl' = R.asg
                  /\ adminOps' = Append(adminOps, [op EXCEPT !.step = R.step])
          ELSE /\ adminOps' = Append(adminOps, op)
               /\ UNCHANGED <<instancesTbl, assignmentsTbl>>
    /\ UNCHANGED <<upVars, policyTable, sinkMode, sendVars, extVars, postVars, discVars,
                   connVars, streamOut>>

\* With pg: the next statement of call k is run by the database.
AdminStep(k) ==
    /\ k \in 1..Len(adminOps)
    /\ backend = "postgres"
    /\ adminOps[k].step \notin Terminal
    /\ LET R == ExecQuery(adminOps[k], k, DbState(instancesTbl, assignmentsTbl, "q1"))
       IN /\ instancesTbl' = R.inst
          /\ assignmentsTbl' = R.asg
          /\ adminOps' = [adminOps EXCEPT ![k].step = R.step]
    /\ UNCHANGED <<upVars, policyTable, sinkMode, sendVars, extVars, postVars, discVars,
                   connVars, streamOut>>

InitAdminSpec ==
    /\ InitUpstream
    /\ InitAdmin
    /\ InitSend
    /\ InitPlugins
    /\ InitLate
    /\ sinkMode = AllOk
    /\ InitPost
    /\ InitDisc
    /\ InitConn
    /\ backend \in {"sqlite", "postgres"}
    /\ persistedTools = [p \in Providers |-> NoTools]
    /\ policyTable = {}

NextAdmin ==
    \/ \E kind \in AdminKinds \ {"unassign"}, i \in PolicyIds : StartAdmin(kind, i, 0)
    \/ \E a \in 1..MaxOps : StartAdmin("unassign", NULL, a)
    \/ \E k \in 1..MaxOps : AdminStep(k)

SpecAdmin == InitAdminSpec /\ [][NextAdmin]_vars

\* C19 -- Referential invariant of assignments.  In every state reached by
\* the administrative calls, in any order and interleaving, every stored
\* assignment references a stored policy instance.
C19_AssignmentsReferenceInstances ==
    \A r \in assignmentsTbl : r.policyInstanceId \in instancesTbl

\* C19 witness: an instance was deleted, an INSERT naming an absent instance
\* was refused, and an assignment of another instance is stored.
C19_Witness ==
    /\ \E j \in 1..Len(adminOps) : adminOps[j].kind = "delete" /\ adminOps[j].step = "done"
    /\ \E j \in 1..Len(adminOps) : adminOps[j].step = "failed"
    /\ assignmentsTbl # {}

----------------------------------------------------------------------------
(* SseUrlTransport.send (specification SpecSend)                           *)

DEFAULT_TIMEOUT_MS == 30000

\* The messages send emits by itself: { jsonrpc: "2.0", id: null,
\* error: { code: -32603, message } }.
TransportErrorMessage(message) ==
    [t |-> "jsonrpc-error", id |-> NULL, code |-> -32603, message |-> message]
NotDiscovered == TransportErrorMessage("Remote endpoint not yet discovered (no endpoint event)")
TransportError == TransportErrorMessage("Transport error")

\* The text of the provider's response, emitted as it is.
ResponseText(text) == [t |-> "text", s |-> text]

Lines == {"line1", "line2"}
Statuses == {200, 202, 404, 500}
Texts == {"", "{result}"}

\* res.ok
Ok(status) == status >= 200 /\ status <= 299

\* send(line) is called on provider p's transport: without endpoint it
\* emits the error message and returns; else it arms the timer and starts
\* the fetch.
Send(p, line) ==
    /\ sendCall.pc = "idle"
    /\ IF remotePostUrl[p] = NULL
       THEN /\ sendCall' = [NoSend EXCEPT !.pc = "returned", !.p = p, !.line = line]
            /\ transportOut' = Append(transportOut, NotDiscovered)
       ELSE /\ sendCall' = [NoSend EXCEPT !.pc = "fetching", !.p = p, !.line = line,
                                          !.endpoint = remotePostUrl[p],
                                          !.timer = "armed",
                                          !.timeoutMs = DEFAULT_TIMEOUT_MS]
            /\ UNCHANGED transportOut
    /\ UNCHANGED <<upVars, policyTable, sinkMode, adminVars, extVars, postVars, discVars,
                   connVars, streamOut>>

\* The fetch resolves with the response's head: the timer is cleared and
\* the text is awaited.
FetchResolves(status) ==
    /\ sendCall.pc = "fetching"
    /\ sendCall' = [sendCall EXCEPT !.pc = "reading", !.timer = "cleared",
                                    !.status = status]
    /\ UNCHANGED <<upVars, policyTable, sinkMode, adminVars, extVars, postVars, discVars,
                   connVars, streamOut, transportOut>>

\* The catch block: the timer is cleared and one error message is emitted.
Caught(failure, timer) ==
    /\ sendCall' = [sendCall EXCEPT !.pc = "returned", !.timer = timer,
                                    !.failure = failure]
    /\ transportOut' = Append(transportOut, TransportError)

\* The fetch is rejected: the connection failed.
FetchRejects ==
    /\ sendCall.pc = "fetching"
    /\ Caught("network", "cleared")
    /\ UNCHANGED <<upVars, policyTable, sinkMode, adminVars, extVars, postVars, discVars,
                   connVars, streamOut>>

\* The timer fires before the response's head: controller.abort() rejects
\* the fetch.
TimerFires ==
    /\ sendCall.pc = "fetching"
    /\ sendCall.timer = "armed"
    /\ Caught("timeout", "fired")
    /\ UNCHANGED <<upVars, policyTable, sinkMode, adminVars, extVars, postVars, discVars,
                   connVars, streamOut>>

\* res.text() resolves: the text is emitted when the response is ok and the
\* text is not empty.
TextResolves(text) ==
    /\ sendCall.pc = "reading"
    /\ sendCall' = [sendCall EXCEPT !.pc = "returned"]
    /\ transportOut' = IF Ok(sendCall.status) /\ text # ""
                       THEN Append(transportOut, ResponseText(text))
                       ELSE transportOut
    /\ UNCHANGED <<upVars, policyTable, sinkMode, adminVars, extVars, postVars, discVars,
                   connVars, streamOut>>

\* res.text() rejects: the connection broke while the body was read.
TextRejects ==
    /\ sendCall.pc = "reading"
    /\ Caught("body", "cleared")
    /\ UNCHANGED <<upVars, policyTable, sinkMode, adminVars, extVars, postVars, discVars,
                   connVars, streamOut>>

InitSendSpec ==
    /\ InitUpstream
    /\ InitAdmin
    /\ InitSend
    /\ InitPlugins
    /\ InitLate
    /\ sinkMode = AllOk
    /\ InitPost
    /\ InitDisc
    /\ InitConn
    /\ backend = "sqlite"
    /\ persistedTools = [p \in Providers |-> NoTools]
    /\ policyTable = {}

NextSend ==
    \/ \E p \in Providers : EndpointReady(p)
    \/ \E p \in Providers, line \in Lines : Send(p, line)
    \/ \E status \in Statuses : FetchResolves(status)
    \/ FetchRejects
    \/ TimerFires
    \/ \E text \in Texts : TextResolves(text)
    \/ TextRejects

SpecSend == InitSendSpec /\ [][NextSend]_vars

\* The call was made while the connection was Ready and has returned.
ReadySendReturned == sendCall.pc = "returned" /\ sendCall.endpoint # NULL

\* The write did not succeed: a response that is not ok, a rejected fetch,
\* the timeout, or a broken body.
WriteFailed == sendCall.failure # "none" \/ (sendCall.status # 0 /\ ~Ok(sendCall.status))

\* C20 (as stated) -- Upstream send never raises.  A send made while Ready
\* returns, and when its write got a non-ok response or failed at the
\* network level (a timeout included) exactly one JSON-RPC error message
\* was pushed onto the stream.
C20_FailedWriteYieldsOneError ==
    (ReadySendReturned /\ WriteFailed) =>
        /\ Len(transportOut) = 1
        /\ transportOut[1].t = "jsonrpc-error"

\* C20 witness: a send made while Ready got a response that is not ok and
\* returned with nothing pushed onto the stream.
C20_Witness ==
    /\ ReadySendReturned
    /\ sendCall.status = 500
    /\ sendCall.failure = "none"
    /\ transportOut = <<>>

----------------------------------------------------------------------------
(* Reconnecting the upstream stream (specification SpecReconnect)          *)

MaxErrors == 2      \* stream errors per provider

\* onerror: setTimeout(() => this.connectToRemote(), RETRY_MS)
ScheduleRetry_drop(timers) == timers
ScheduleRetry(timers) == timers + 1

\* Every error so far left a timer behind, and every timer that fired made
\* one more call of connectToRemote.
Errors(p) == connects[p] - 1 + retryTimers[p]

\* The EventSource reports an error: the connection could not be made or the
\* stream broke.  The library either gives the EventSource up (closes) or
\* keeps reconnecting it by itself; the handler neither closes it nor looks
\* at its state, it only arms the timer.
OnError(p, closes) ==
    /\ remoteEs[p] > 0
    /\ ~reachable[p]
    /\ Errors(p) < MaxErrors
    /\ remoteEs' = [remoteEs EXCEPT ![p] = IF closes THEN @ - 1 ELSE @]
    /\ retryTimers' = [retryTimers EXCEPT ![p] = ScheduleRetry(@)]
    /\ UNCHANGED <<upVars, policyTable, sinkMode, adminVars, sendVars, connects,
                   reachable, received, settled, listeners, storageDown, pmVars,
                   postVars, discVars, connVars, streamOut>>

StreamError(p, closes) == OnError(p, closes) /\ UNCHANGED lateVars

\* RETRY_MS later: connectToRemote makes a new EventSource with the same
\* three listeners.
RetryTimerFires(p) ==
    /\ retryTimers[p] > 0
    /\ retryTimers' = [retryTimers EXCEPT ![p] = @ - 1]
    /\ remoteEs' = [remoteEs EXCEPT ![p] = @ + 1]
    /\ connects' = [connects EXCEPT ![p] = @ + 1]
    /\ UNCHANGED <<upVars, policyTable, sinkMode, adminVars, sendVars, reachable,
                   received, settled, listeners, storageDown, pmVars, lateVars, postVars,
                   discVars, connVars, streamOut>>

\* The provider's outage ends for good.
StaysReachable(p) ==
    /\ ~reachable[p]
    /\ reachable' = [reachable EXCEPT ![p] = TRUE]
    /\ UNCHANGED <<upVars, policyTable, sinkMode, adminVars, sendVars, remoteEs,
                   retryTimers, connects, received, settled, listeners,
                   storageDown, pmVars, lateVars, postVars, discVars, connVars,
                   streamOut>>

\* The "endpoint" event of one of the provider's EventSources.
Announces(p) == remoteEs[p] > 0 /\ EndpointReady(p)

InitReconnect ==
    /\ InitUpstream
    /\ InitAdmin
    /\ InitSend
    /\ InitPlugins
    /\ InitLate
    /\ sinkMode = AllOk
    /\ InitPost
    /\ InitDisc
    /\ InitConn
    /\ backend = "sqlite"
    /\ persistedTools = [p \in Providers |-> NoTools]
    /\ policyTable = {}

NextReconnect ==
    \/ \E p \in Providers, closes \in BOOLEAN : StreamError(p, closes)
    \/ \E p \in Providers : RetryTimerFires(p)
    \/ \E p \in Providers : StaysReachable(p)
    \/ \E p \in Providers : Announces(p)

\* An armed timer fires, and a provider that stays reachable answers a
\* connection with its endpoint event.
ReconnectFairness ==
    \A p \in Providers :
        /\ WF_vars(RetryTimerFires(p))
        /\ WF_vars(reachable[p] /\ Announces(p))

SpecReconnect == InitReconnect /\ [][NextReconnect]_vars /\ ReconnectFairness

Ready(p) == remotePostUrl[p] # NULL

\* C21 -- unbounded reconnect: whenever a provider has no EventSource left,
\* a connection attempt is pending, whatever the number of errors before
\* (the failure of the first connection included); hence once the provider
\* stays reachable its connection eventually becomes Ready.
C21_UnboundedReconnect ==
    /\ [](\A p \in Providers : remoteEs[p] = 0 => retryTimers[p] > 0)
    /\ \A p \in Providers : reachable[p] ~> Ready(p)

\* C21 witness: the first connection and the one after it failed, the third
\* call of connectToRemote reached the provider, which announced its
\* endpoint.
C21_Witness ==
    /\ connects["p1"] = 3
    /\ reachable["p1"]
    /\ remoteEs["p1"] = 1
    /\ Ready("p1")

----------------------------------------------------------------------------
(* The order of relayed messages (specification SpecOrder)                 *)

MaxMsgs == 3        \* messages read from one provider's stream

\* The n-th message of provider p's stream; a provider's responses differ in
\* their ids, and the first one carries a catalog.
NthMessage(p, n) ==
    UpstreamMessage(p, ToString(n), IF n = 1 THEN "T2" ELSE NoTools)

\* remoteEs.onmessage: the data is emitted as "message" and relayed inside
\* the same call.
Receive(p, m) ==
    /\ Len(received[p]) < MaxMsgs
    /\ received' = [received EXCEPT ![p] = Append(@, m)]
    /\ OnMessage(p, m)
    /\ UNCHANGED <<policyTable, sinkMode, adminVars, sendVars, esVars, settled,
                   listeners, storageDown, pmVars, lateVars>>

InitOrder ==
    /\ InitUpstream
    /\ InitAdmin
    /\ InitSend
    /\ InitPlugins
    /\ InitLate
    /\ sinkMode = AllOk
    /\ InitPost
    /\ InitDisc
    /\ InitConn
    /\ backend = "sqlite"
    /\ persistedTools = [p \in Providers |-> NoTools]
    /\ policyTable = {}

\* The first provider announces its endpoint at some moment, the second has
\* not done so yet.
NextOrder ==
    \/ announced["p1"] = 0 /\ EndpointReady("p1")
    \/ \E h \in Streams, p \in Providers : InOpeningOrder(h) /\ OpenStream(h, p)
    \/ \E h \in Streams : CloseStream(h)
    \/ \E p \in Providers : Receive(p, NthMessage(p, Len(received[p]) + 1))

SpecOrder == InitOrder /\ [][NextOrder]_vars

\* The upstream messages written to stream h, in the order of its lines.
RelayedTo(h) ==
    LET U == SelectSeq(streamOut[h], LAMBDA l : l.kind = "data")
    IN [k \in 1..Len(U) |-> U[k].data]

\* C22 -- relay order: what a subscriber of provider P has been sent of P's
\* messages is one stretch of the sequence in which they were received
\* (those received while it was subscribed), in that order and without a
\* message of another provider.
C22_RelayOrder ==
    \A h \in Streams :
        streams[h].state # "unopened" =>
            LET R == received[streams[h].provider]
            IN \E i \in 1..(Len(R) + 1) : \E j \in (i - 1)..Len(R) :
                  RelayedTo(h) = SubSeq(R, i, j)

\* C22 witness: a stream opened after p1's first message has been sent the
\* second and the third, while a message of p2 was received in between.
C22_Witness ==
    \E h \in Streams :
        /\ streams[h].provider = "p1"
        /\ Len(received["p1"]) = 3
        /\ Len(received["p2"]) >= 1
        /\ RelayedTo(h) = SubSeq(received["p1"], 2, 3)

----------------------------------------------------------------------------
(* The endpoint announcement on client streams (specification SpecStreams) *)

\* The endpoint announcements written to stream h.
Announcements(h) == SelectSeq(streamOut[h], LAMBDA l : l.kind = "endpoint")

\* C23 -- endpoint announcement to subscribers: an open stream of provider P
\* holds P's endpoint announcement whenever P's upstream is Ready (written
\* by the open itself when P was Ready then, by the readiness transition
\* otherwise); a stream holds no announcement while its provider's upstream
\* has not announced its endpoint, and never one of another provider.
C23_EndpointAnnouncement ==
    \A h \in Streams :
        streams[h].state # "unopened" =>
            LET p == streams[h].provider
            IN /\ (streams[h].state = "open" /\ Ready(p)) => Announcements(h) # <<>>
               /\ ~Ready(p) => Announcements(h) = <<>>
               /\ \A i \in 1..Len(Announcements(h)) :
                     Announcements(h)[i] = EndpointLine(p)

\* C23 witness: p1's upstream is Ready, p2's is not, and both open streams
\* of p1 hold p1's announcement.
C23_Witness ==
    /\ Ready("p1") /\ ~Ready("p2")
    /\ \A h \in Streams :
          /\ streams[h].state = "open"
          /\ streams[h].provider = "p1"
          /\ Announcements(h) = <<EndpointLine("p1")>>

----------------------------------------------------------------------------
(* The discovery lock (specification SpecDisc)                             *)

\* The endpointReady listener ran for provider p in this step.
BecomesReady(p) == announced'[p] = announced[p] + 1

\* C24 -- discovery lock: at most one handshake is in flight per address,
\* the address's in-flight entry is set exactly while a handshake of the
\* address is unsettled (whatever it settles with), and a readiness
\* transition starts a handshake exactly when none is in flight.
C24_DiscoveryLock ==
    /\ [](\A u \in Urls :
            /\ InFlight(u) \in {0, 1}
            /\ DiscoveryRunning(u) <=> InFlight(u) = 1)
    /\ [][\A p \in Providers :
            BecomesReady(p) =>
                handshakes'[ServerUrl(p)] =
                    IF InFlight(ServerUrl(p)) = 0
                    THEN handshakes[ServerUrl(p)] + 1
                    ELSE handshakes[ServerUrl(p)]]_vars

\* C24 witness: the first handshake failed, the entry was removed, and the
\* next readiness transition has started the second one, now in flight.
C24_Witness ==
    \E u \in Urls :
        /\ handshakes[u] = 2
        /\ settled[u] = 1
        /\ lastResolved = [url |-> u, tools |-> NULL]
        /\ DiscoveryRunning(u)

----------------------------------------------------------------------------
(* The catalog between readiness and discovery (specification SpecDisc)    *)

\* Provider p's upstream became ready and the handshake of its address has
\* not settled.
AwaitingDiscovery(p) == announced[p] > 0 /\ DiscoveryRunning(ServerUrl(p))

\* tools of the provider's entry in getConnectionInfo's snapshot
SnapshotTools(p) == toolsListCache[p]

\* C25 -- no empty catalog due to a race: for a provider whose catalog was
\* persisted by an earlier run, a snapshot taken at any moment between its
\* readiness transition and the settling of the handshake shows a catalog.
C25_NeverEmptyCatalog ==
    \A p \in Providers :
        (AwaitingDiscovery(p) /\ persistedTools[p] = "T0") =>
            SnapshotTools(p) # NoTools

\* C25 witness: with pg, p1 became ready, its saved catalog has been asked
\* for and not yet answered, and the snapshot has no catalog for p1.
C25_Witness ==
    /\ backend = "postgres"
    /\ AwaitingDiscovery("p1")
    /\ persistedTools["p1"] = "T0"
    /\ \E r \in rehydrating : ~r.read
    /\ SnapshotTools("p1") = NoTools

----------------------------------------------------------------------------
(* The catalog after a successful discovery (specification SpecDisc)       *)

\* A handshake of provider p's address settles with a catalog in this step.
Discovered(p) ==
    /\ settled'[ServerUrl(p)] = settled[ServerUrl(p)] + 1
    /\ lastResolved'.tools # NULL

\* Provider p's in-memory catalog is the result of the latest handshake.
HoldsLatest(p) ==
    /\ lastResolved.url = ServerUrl(p)
    /\ lastResolved.tools # NULL
    /\ toolsListCache[p] = lastResolved.tools

\* C26 -- catalog reflects the latest result: a successful discovery sets
\* the catalogs of the address's providers to exactly its result, and a
\* catalog that holds the latest result is changed only by the next
\* successful discovery or by the provider's own readiness transition,
\* whatever rehydration reads are under way.
C26_CatalogIsLatest ==
    [][\A p \in Providers :
          /\ Discovered(p) => toolsListCache'[p] = lastResolved'.tools
          /\ (HoldsLatest(p) /\ toolsListCache'[p] # toolsListCache[p]) =>
                (Discovered(p) \/ BecomesReady(p))]_vars

\* C26 witness: the handshake settled with T1, nothing is in flight or
\* pending any more, and p1's in-memory catalog is the older T0 that a
\* rehydration read had fetched.
C26_Witness ==
    /\ lastResolved.tools = "T1"
    /\ \A u \in Urls : InFlight(u) = 0
    /\ rehydrating = {}
    /\ pendingSaves = {}
    /\ toolsListCache["p1"] = "T0"
    /\ persistedTools["p1"] = "T1"

----------------------------------------------------------------------------
(* A submission before the orchestrator is wired (specification SpecWiring)*)

\* listeners === 0
NoListener_never == FALSE
NoListener == listeners = 0

\* clientTransport.on("postRequest", ...) in setupEventHandlers
Wire ==
    /\ listeners = 0
    /\ listeners' = 1
    /\ UNCHANGED <<upVars, policyTable, sinkMode, adminVars, sendVars, esVars,
                   received, settled, storageDown, pmVars, lateVars, postVars, discVars,
                   connVars, streamOut>>

\* POST /:mcpId/messages for a configured provider: without a listener the
\* route answers 503 itself and returns; otherwise it emits postRequest and
\* waits for the reply callback.
Post(b, p, a) ==
    IF NoListener
    THEN /\ pc = "idle"
         /\ httpResponses' = Append(httpResponses, NotReady)
         /\ pc' = "done"
         /\ UNCHANGED <<upVars, sideVars, sub, replied, policyPlugins, idx, args,
                        evaluated, blockedBy, result, emitted, upstreamWrites,
                        sseOut, discVars, connVars, streamOut>>
    ELSE PostRequest(b, p, a)

InitWiring ==
    /\ InitUpstream
    /\ InitAdmin
    /\ InitSend
    /\ InitPlugins
    /\ InitLate
    /\ sinkMode = AllOk
    /\ InitSubmission
    /\ listeners = 0
    /\ InitDisc
    /\ InitConn
    /\ backend = "sqlite"
    /\ persistedTools = [p \in Providers |-> NoTools]
    /\ policyTable =
          {Row(Template("deny-mail", "deny-tool-access", CfgEmpty, NULL, NULL, "send_mail"), 0)}

NextWiring ==
    \/ Wire
    \/ \E p \in Providers : announced[p] = 0 /\ EndpointReady(p)
    \/ \E b \in CallBodies, p \in Providers, a \in AgentIds : Post(b, p, a)
    \/ ResolvePolicies
    \/ EvaluatePolicy
    \/ Deliver
    \/ \E ans \in RelayAnswers : UpstreamResponse(ans)

SpecWiring == InitWiring /\ [][NextWiring]_vars

\* The route handler for a submission ran in this step.
PostReceived == pc = "idle" /\ pc' # "idle"

\* C27 -- unwired orchestrator: a submission received while nothing listens
\* for postRequest is answered 503 in the same step; no postRequest event
\* goes out (no submission reaches a handler, nothing is resolved, emitted
\* or written upstream) and the request is finished.
C27_UnwiredIs503 ==
    [][(PostReceived /\ listeners = 0) =>
          /\ httpResponses' = <<NotReady>>
          /\ sub' = NoSub
          /\ pc' = "done"
          /\ UNCHANGED <<policyPlugins, emitted, upstreamWrites, sseOut>>]_vars

\* C27 witness: the submission was answered 503 although a provider was
\* ready; the listener was attached afterwards.
C27_Witness ==
    /\ httpResponses = <<NotReady>>
    /\ sub = NoSub
    /\ pc = "done"
    /\ Ready("p1")
    /\ listeners = 1

----------------------------------------------------------------------------
(* Assignments whose plugin cannot be built (specification SpecSkip)       *)

\* Assignments that cannot be instantiated (a plugin that was never
\* registered, a config the constructor's schema rejects, no config), and
\* assignments that can.
SkipTemplates ==
    { Template("ghost", "ghost", CfgEmpty, NULL, NULL, NULL),
      Template("bad-regex", "deny-regex-parameter", CfgEmpty, NULL, NULL, NULL),
      Template("nocfg", "deny-tool-access", CfgNull, NULL, NULL, NULL),
      Template("deny-mail", "deny-tool-access", CfgEmpty, NULL, NULL, "send_mail"),
      Template("no-paris", "deny-regex-parameter", CfgParis, NULL, NULL, NULL),
      Template("units", "set-units", CfgEmpty, NULL, NULL, NULL) }

SkipTables ==
    UNION { { {Row(t, f[t]) : t \in S} : f \in [S -> Priorities] } :
            S \in {S \in SUBSET SkipTemplates : Cardinality(S) <= MaxAssign + 1} }

InitSkip ==
    /\ InitUpstream
    /\ InitAdmin
    /\ InitSend
    /\ InitPlugins
    /\ InitLate
    /\ sinkMode = AllOk
    /\ InitPost
    /\ InitDisc
    /\ InitConn
    /\ backend = "sqlite"
    /\ persistedTools = [p \in Providers |-> NoTools]
    /\ policyTable \in SkipTables

\* One tools/call submission to the first provider, which is ready.
NextSkip ==
    \/ announced["p1"] = 0 /\ EndpointReady("p1")
    \/ \E b \in CallBodies : Ready("p1") /\ PostRequest(b, "p1", NULL)
    \/ ResolvePolicies
    \/ EvaluatePolicy
    \/ Deliver
    \/ \E ans \in RelayAnswers : UpstreamResponse(ans)

SpecSkip == InitSkip /\ [][NextSkip]_vars

\* The plugin of assignment r cannot be instantiated.
CannotInstantiate(r) ==
    \/ r.pluginId \notin RegisteredPlugins
    \/ r.pluginId = "deny-regex-parameter" /\ Len(r.config.rules) = 0
    \/ ~r.config.isObject

\* The plugin lists handlePostMessage may build for the submission from
\* table T.
PluginListsOf(T) ==
    {InstantiateAll(q) :
        q \in getPoliciesForContext(T, sub.agentId, ContextToolName(sub.body), NULL)}

\* C28 -- skipped policy on instantiation failure: the plugins built for a
\* submission are those of the resolved assignments that can be
\* instantiated, every one of them, in resolution order: a list that the
\* table without the failing assignments yields as well, so that the call
\* is processed as if they did not exist.
C28_FailingAssignmentSkipped ==
    CallResolved =>
        /\ \A i \in 1..Len(policyPlugins) : ~CannotInstantiate(policyPlugins[i].row)
        /\ {policyPlugins[i].row : i \in 1..Len(policyPlugins)} =
              {r \in policyTable :
                  /\ RowMatches(r, sub.agentId, ContextToolName(sub.body), NULL)
                  /\ ~CannotInstantiate(r)}
        /\ PriorityDesc(PluginRows)
        /\ policyPlugins \in
              PluginListsOf({r \in policyTable : ~CannotInstantiate(r)})

\* C28 witness: an assignment of an unregistered plugin has the higher
\* priority and one without config the same priority as deny-mail; the
\* send_mail call was still blocked by deny-mail.
C28_Witness ==
    /\ Finished
    /\ {r.id : r \in policyTable} = {"ghost", "nocfg", "deny-mail"}
    /\ \E r \in policyTable : r.id = "ghost" /\ r.priority = 10
    /\ \E r \in policyTable : r.id = "deny-mail" /\ r.priority = 0
    /\ blockedBy # NoRow
    /\ blockedBy.id = "deny-mail"

----------------------------------------------------------------------------
(* Failing storage on best-effort calls (specification SpecStorage)        *)

ListToolsBody == JsonText("compact", ObjVal("1", "tools/list", FALSE, UNDEF, FALSE, {}))

\* A list-tools submission and a call.
StorageBodies ==
    {ListToolsBody, JsonText("spaced", Call("7", "get_weather", TRUE, OsloArgs))}

\* The storage works or fails from the start; no policy is assigned.
InitStorage ==
    /\ InitUpstream
    /\ InitAdmin
    /\ InitSend
    /\ InitPlugins
    /\ InitLate
    /\ sinkMode = AllOk
    /\ InitPost
    /\ InitDisc
    /\ InitConnections
    /\ storageDown \in BOOLEAN
    /\ backend \in {"sqlite", "postgres"}
    /\ persistedTools = [p \in Providers |-> NoTools]
    /\ policyTable = {}

NextStorage ==
    \/ \E p \in Providers : announced[p] = 0 /\ EndpointReady(p)
    \/ \E h \in Streams, p \in Providers : InOpeningOrder(h) /\ OpenStream(h, p)
    \/ \E h \in Streams : SaveAgentStep(h)
    \/ \E b \in StorageBodies, p \in Providers : PostRequest(b, p, NULL)
    \/ ResolvePolicies
    \/ Deliver
    \/ \E ans \in UpstreamAnswers : UpstreamResponse(ans)
    \/ \E sv \in pendingSaves : SaveApplied(sv)

SpecStorage == InitStorage /\ [][NextStorage]_vars

\* The list-tools submission was answered with a catalog by the provider.
CatalogAnswered ==
    /\ Finished
    /\ sub.body = ListToolsBody
    /\ toolsListCache[sub.serverName] = "T1"
    /\ lastResolved.tools = NULL

\* C29 -- best-effort storage failures are swallowed: with the storage
\* failing, a stream that was opened is registered, and holds the endpoint
\* announcement when its provider is ready, although its agent could not be
\* saved; a list-tools submission answered with a catalog gets the
\* provider's status and body although the catalog could not be saved.
C29_StorageFailuresSwallowed ==
    storageDown =>
        /\ \A h \in Streams :
              streams[h].state = "open" =>
                  /\ streams[h].save = "failed"
                  /\ h \in sseStreams
                  /\ Ready(streams[h].provider) => Announcements(h) # <<>>
        /\ CatalogAnswered =>
              /\ httpResponses = <<Response(200, PlainText("{result:{tools}}"))>>
              /\ persistedTools[sub.serverName] = NoTools

\* C29 witness: the storage fails; a stream of the ready p1 is open and
\* announced to, no agent was saved, and a list-tools submission to p1 got
\* the provider's 200 and catalog.
C29_Witness ==
    /\ storageDown
    /\ streams[1].state = "open" /\ streams[1].provider = "p1"
    /\ Announcements(1) = <<EndpointLine("p1")>>
    /\ agentsTbl = {}
    /\ CatalogAnswered
    /\ sub.serverName = "p1"
    /\ httpResponses = <<Response(200, PlainText("{result:{tools}}"))>>

----------------------------------------------------------------------------
(* PluginManager: configuration and instance caches (specification         *)
(* SpecPlugins)                                                            *)

\* The one configuration path all calls resolve to.
Path == "guardio.config.js"

\* The objects call c creates: the configuration loadConfigFromPath gives
\* it and the arrays of instances it builds.
ConfigObject(c) == "config#" \o ToString(c)
StorageList(c) == "storage#" \o ToString(c)
SinkList(c) == "sinks#" \o ToString(c)

CallKinds == {"loadConfig", "getEventSinkPlugins"}

\* this.configPath === path && this.config !== null
ConfigCached == configPath = Path /\ pmConfig # NULL

notPmVars == <<upVars, policyTable, sinkMode, adminVars, sendVars, esVars, received,
               settled, listeners, storageDown, lateVars, postVars, discVars,
               connVars, streamOut>>

\* A call of loadConfig, or of getEventSinkPlugins, whose first statement is
\* `await this.loadConfig(...)`: loadConfig runs up to its return of the
\* cached configuration or up to `await loadConfigFromPath(path)`.
StartCall(c, kind) ==
    /\ pmCalls[c].kind = "none"
    /\ \A b \in 1..(c - 1) : pmCalls[b].kind # "none"
    /\ IF ConfigCached
       THEN /\ pmCalls' = [pmCalls EXCEPT ![c] =
                   IF kind = "loadConfig"
                   THEN [kind |-> kind, pc |-> "returned", loaded |-> FALSE, ret |-> pmConfig]
                   ELSE [kind |-> kind, pc |-> "loaded", loaded |-> FALSE, ret |-> NULL]]
            /\ UNCHANGED configPath
       ELSE /\ configPath' = Path
            /\ pmCalls' = [pmCalls EXCEPT ![c] =
                   [kind |-> kind, pc |-> "loading", loaded |-> TRUE, ret |-> NULL]]
    /\ UNCHANGED <<pmConfig, storagePlugins, eventSinkPlugins, notPmVars>>

\* loadConfigFromPath settles for call c: the configuration is stored, the
\* four instance caches are set to null and loadConfig returns this.config.
LoadSettles(c) ==
    /\ pmCalls[c].pc = "loading"
    /\ pmConfig' = ConfigObject(c)
    /\ storagePlugins' = NULL
    /\ eventSinkPlugins' = NULL
    /\ pmCalls' = [pmCalls EXCEPT ![c] =
           IF @.kind = "loadConfig"
           THEN [@ EXCEPT !.pc = "returned", !.ret = ConfigObject(c)]
           ELSE [@ EXCEPT !.pc = "loaded"]]
    /\ UNCHANGED <<configPath, notPmVars>>

\* getEventSinkPlugins goes on after its loadConfig: the cached array is
\* returned, or getStoragePlugins is called and awaited.
SinksCheck(c) ==
    /\ pmCalls[c].pc = "loaded"
    /\ pmCalls' = [pmCalls EXCEPT ![c] =
           IF eventSinkPlugins # NULL
           THEN [@ EXCEPT !.pc = "returned", !.ret = eventSinkPlugins]
           ELSE [@ EXCEPT !.pc = "storage"]]
    /\ UNCHANGED <<pmConfig, configPath, storagePlugins, eventSinkPlugins, notPmVars>>

\* The awaited getStoragePlugins goes on after its own loadConfig: it
\* returns the cached adapters or builds and caches them.
StorageResumes(c) ==
    /\ pmCalls[c].pc = "storage"
    /\ storagePlugins' = IF storagePlugins # NULL THEN storagePlugins ELSE StorageList(c)
    /\ pmCalls' = [pmCalls EXCEPT ![c].pc = "building"]
    /\ UNCHANGED <<pmConfig, configPath, eventSinkPlugins, notPmVars>>

\* getEventSinkPlugins builds its instances, stores and returns them.
SinksBuilt(c) ==
    /\ pmCalls[c].pc = "building"
    /\ eventSinkPlugins' = SinkList(c)
    /\ pmCalls' = [pmCalls EXCEPT ![c] = [@ EXCEPT !.pc = "returned", !.ret = SinkList(c)]]
    /\ UNCHANGED <<pmConfig, configPath, storagePlugins, notPmVars>>

InitPluginsSpec ==
    /\ InitUpstream
    /\ InitAdmin
    /\ InitSend
    /\ InitPlugins
    /\ InitLate
    /\ sinkMode = AllOk
    /\ InitPost
    /\ InitDisc
    /\ InitConn
    /\ backend = "sqlite"
    /\ persistedTools = [p \in Providers |-> NoTools]
    /\ policyTable = {}

NextPlugins ==
    \/ \E c \in 1..MaxCalls, kind \in CallKinds : StartCall(c, kind)
    \/ \E c \in 1..MaxCalls : LoadSettles(c)
    \/ \E c \in 1..MaxCalls : SinksCheck(c)
    \/ \E c \in 1..MaxCalls : StorageResumes(c)
    \/ \E c \in 1..MaxCalls : SinksBuilt(c)

SpecPlugins == InitPluginsSpec /\ [][NextPlugins]_vars

ReturnedCalls(kind) ==
    {c \in 1..MaxCalls : pmCalls[c].kind = kind /\ pmCalls[c].pc = "returned"}

\* C30 -- configuration and instance caching: with one configuration path,
\* the configuration is loaded by at most one call, all loadConfig calls
\* that returned gave the same configuration object and all
\* getEventSinkPlugins calls that returned gave the same instances,
\* whether or not the calls overlapped.
C30_LoadedOnceSameInstances ==
    /\ Cardinality({c \in 1..MaxCalls : pmCalls[c].loaded}) <= 1
    /\ \A kind \in CallKinds : \A c, d \in ReturnedCalls(kind) :
          pmCalls[c].ret = pmCalls[d].ret

\* C30 witness: the second loadConfig was called while the first was
\* loading; both loaded, and they returned different configuration objects.
C30_Witness ==
    /\ pmCalls[1] = [kind |-> "loadConfig", pc |-> "returned", loaded |-> TRUE,
                     ret |-> ConfigObject(1)]
    /\ pmCalls[2] = [kind |-> "loadConfig", pc |-> "returned", loaded |-> TRUE,
                     ret |-> ConfigObject(2)]

----------------------------------------------------------------------------
(* PluginManager: loading the declared plugin entries (specification       *)
(* SpecLoad)                                                               *)

Capabilities == {"policy", "storage", "eventSink"}

\* The names with a built-in: policyPluginNames and the keys of
\* storageRegistry and of eventSinkRegistry.
policyPluginNames == {"deny-tool-access", "deny-regex-parameter"}
storageRegistry == {"sqlite", "postgres"}
eventSinkRegistry == {"sqlite", "postgres"}

\* The members a get*Plugins call tests with typeof ... === "function" on a
\* module loaded from a path.
RequiredOps(cap) ==
    CASE cap = "policy" -> {"evaluate"}
      [] cap = "storage" -> {"start", "connect", "getRepository", "disconnect", "end"}
      [] cap = "eventSink" -> {"emit"}

AllOps == UNION {RequiredOps(cap) : cap \in Capabilities}

\* What a plugin directory holds: an index.js or not, a default export that
\* is an object or not, a string `name` or not, and its function members.
Module(file, object, name, ops) ==
    [file |-> file, object |-> object, name |-> name, ops |-> ops]

NoModule == Module(FALSE, FALSE, FALSE, {})

PathModules ==
    { Module(FALSE, FALSE, FALSE, {}),
      Module(TRUE, FALSE, FALSE, {}),
      Module(TRUE, TRUE, FALSE, AllOps),
      Module(TRUE, TRUE, TRUE, {}),
      Module(TRUE, TRUE, TRUE, AllOps) }

\* The declared entries: built-ins by name (one known and one unknown name
\* per capability) and modules at a path.
DeclaredEntries ==
    { [type |-> cap, name |-> n, path |-> NULL, module |-> NoModule] :
          cap \in Capabilities, n \in {"sqlite", "deny-tool-access"} }
    \cup
    { [type |-> cap, name |-> "custom", path |-> "./plugins/custom", module |-> m] :
          cap \in Capabilities, m \in PathModules }

RECURSIVE ConfigsOfLength(_)
ConfigsOfLength(n) ==
    IF n = 0 THEN {<<>>}
    ELSE {Append(c, e) : c \in ConfigsOfLength(n - 1), e \in DeclaredEntries}

PluginConfigs == UNION {ConfigsOfLength(n) : n \in 0..MaxEntries}

\* (this.config.plugins ?? []).filter(p => p.type === cap), as the indices
\* of the entries; an instance is named by the index of its entry.
EntriesOf(cap) ==
    SelectSeq([i \in 1..Len(pmEntries) |-> i], LAMBDA i : pmEntries[i].type = cap)

\* The mutant of LoadOne: a mismatch is passed over.
LoadOne_skip(cap, e) ==
    IF e.path # NULL
    THEN IF e.module.file /\ e.module.object /\ e.module.name
            /\ RequiredOps(cap) \subseteq e.module.ops
         THEN "push" ELSE "skip"
    ELSE IF cap = "policy" THEN "skip"
    ELSE IF e.name \in storageRegistry THEN "push" ELSE "skip"

\* The body of the loop of a get*Plugins call for one entry: "push" when an
\* instance is added, "skip" when the entry is passed over, "throw" when an
\* Error is thrown out of the call.
LoadOne(cap, e) ==
    IF e.path # NULL
    THEN IF ~e.module.file THEN "throw"            \* resolvePluginEntryPath
         ELSE IF ~e.module.object THEN "throw"     \* loadPluginInstance
         ELSE IF \/ ~e.module.name
                 \/ \E op \in RequiredOps(cap) : op \notin e.module.ops
              THEN "throw"
              ELSE "push"
    ELSE IF cap = "policy"
         THEN IF e.name \notin policyPluginNames THEN "throw" ELSE "skip"
         ELSE IF cap = "storage"
              THEN IF e.name \notin storageRegistry THEN "throw" ELSE "push"
              ELSE IF e.name \notin eventSinkRegistry THEN "throw" ELSE "push"

\* this.policyPlugins, this.storagePlugins, this.eventSinkPlugins
CacheOf(cap) ==
    CASE cap = "policy" -> pmPolicyPlugins
      [] cap = "storage" -> storagePlugins
      [] cap = "eventSink" -> eventSinkPlugins

SetCache(cap, instances) ==
    /\ pmPolicyPlugins' = IF cap = "policy" THEN instances ELSE pmPolicyPlugins
    /\ storagePlugins' = IF cap = "storage" THEN instances ELSE storagePlugins
    /\ eventSinkPlugins' = IF cap = "eventSink" THEN instances ELSE eventSinkPlugins

notLoadVars == <<upVars, policyTable, sinkMode, adminVars, sendVars, esVars, received,
                 settled, listeners, storageDown, pmConfig, configPath, pmCalls,
                 pmEntries, coreVars, evalCalls, lastEvent, probe, stdio, postVars, discVars,
                 connVars, streamOut>>

\* A call of getPolicyPlugins, getStoragePlugins or getEventSinkPlugins, made
\* when the one before has settled: loadConfig gives the cached
\* configuration, the cached instances are returned when there are any,
\* otherwise the loop over the entries starts -- for event sinks after the
\* awaited getStoragePlugins, which runs its own loop when it has no cache.
GetPlugins(kind) ==
    /\ loadCall.pc \in {"idle", "returned", "threw"}
    /\ loadCall.n < MaxLoads
    /\ ConfigCached
    /\ loadCall' =
           IF CacheOf(kind) # NULL
           THEN [kind |-> kind, cap |-> kind, i |-> 0, instances |-> <<>>,
                 pc |-> "returned", ret |-> CacheOf(kind), n |-> loadCall.n + 1]
           ELSE [kind |-> kind,
                 cap |-> IF kind = "eventSink" /\ storagePlugins = NULL
                         THEN "storage" ELSE kind,
                 i |-> 1, instances |-> <<>>, pc |-> "loop", ret |-> NULL,
                 n |-> loadCall.n + 1]
    /\ UNCHANGED <<pmPolicyPlugins, storagePlugins, eventSinkPlugins, notLoadVars>>

\* One round of the loop `for (const entry of plugins)`, or its end: the
\* instances are stored in the capability's cache and returned; a
\* getEventSinkPlugins that awaited getStoragePlugins goes on with its own
\* entries.
LoadEntry ==
    /\ loadCall.pc = "loop"
    /\ LET cap == loadCall.cap
           list == EntriesOf(cap)
       IN IF loadCall.i > Len(list)
          THEN /\ SetCache(cap, loadCall.instances)
               /\ loadCall' =
                      IF cap # loadCall.kind
                      THEN [loadCall EXCEPT !.cap = loadCall.kind, !.i = 1,
                                            !.instances = <<>>]
                      ELSE [loadCall EXCEPT !.pc = "returned",
                                            !.ret = loadCall.instances]
          ELSE LET did == LoadOne(cap, pmEntries[list[loadCall.i]])
               IN /\ loadCall' =
                         CASE did = "throw" -> [loadCall EXCEPT !.pc = "threw"]
                           [] did = "skip" -> [loadCall EXCEPT !.i = @ + 1]
                           [] did = "push" ->
                                [loadCall EXCEPT !.i = @ + 1,
                                                 !.instances = Append(@, list[loadCall.i])]
                  /\ UNCHANGED <<pmPolicyPlugins, storagePlugins, eventSinkPlugins>>
    /\ UNCHANGED notLoadVars

InitLoad ==
    /\ InitUpstream
    /\ InitAdmin
    /\ InitSend
    /\ pmConfig = ConfigObject(1)
    /\ configPath = Path
    /\ storagePlugins = NULL
    /\ eventSinkPlugins = NULL
    /\ pmCalls = [c \in 1..MaxCalls |-> NoCall]
    /\ pmEntries \in PluginConfigs
    /\ pmPolicyPlugins = NULL
    /\ loadCall = NoLoad
    /\ InitCore
    /\ evalCalls = <<>>
    /\ lastEvent = [p \in Providers |-> "none"]
    /\ probe = NoProbe
    /\ stdio = StdioStart(0)
    /\ sinkMode = AllOk
    /\ InitPost
    /\ InitDisc
    /\ InitConn
    /\ backend = "sqlite"
    /\ persistedTools = [p \in Providers |-> NoTools]
    /\ policyTable = {}

NextLoad ==
    \/ \E kind \in Capabilities : GetPlugins(kind)
    \/ LoadEntry

SpecLoad == InitLoad /\ [][NextLoad]_vars

\* Stated without the loop: an entry is well formed for its capability when
\* it names a built-in of that capability, or its path holds a module with
\* a name and the capability's operations.
KnownNames(cap) ==
    CASE cap = "policy" -> {"deny-tool-access", "deny-regex-parameter"}
      [] OTHER -> {"sqlite", "postgres"}

WellFormed(e) ==
    \/ e.path = NULL /\ e.name \in KnownNames(e.type)
    \/ /\ e.path # NULL
       /\ e.module = Module(TRUE, TRUE, TRUE, e.module.ops)
       /\ RequiredOps(e.type) \subseteq e.module.ops

\* The capabilities whose entries a call of the kind loads.
LoadedBy(kind) == IF kind = "eventSink" THEN {"storage", "eventSink"} ELSE {kind}

AllWellFormed(caps) ==
    \A i \in 1..Len(pmEntries) : pmEntries[i].type \in caps => WellFormed(pmEntries[i])

\* The entries of a capability that get an instance: all of them, but for
\* policies only the modules at a path (a built-in policy is instantiated
\* per request from the repository's assignments).
Instantiated(cap) ==
    SelectSeq(EntriesOf(cap),
              LAMBDA i : cap = "policy" => pmEntries[i].path # NULL)

LoadSettled == loadCall.pc \in {"returned", "threw"}

\* C31 as stated -- every declared entry of the capability is instantiated
\* or the call fails: a call that returned gave one instance per declared
\* entry of its capability.
C31_EveryEntryInstantiated ==
    loadCall.pc = "returned" => loadCall.ret = EntriesOf(loadCall.kind)

\* C31 amended -- a get*Plugins call fails exactly when an entry it loads
\* has an unknown built-in name or a wrongly shaped module; a call that
\* returns gives one instance for every entry of its capability, in the
\* declared order, except that a known built-in policy gets no instance;
\* and a cache that is set holds exactly that complete list.
C31_MismatchIsHardError ==
    /\ LoadSettled =>
          /\ loadCall.pc = "threw" <=> ~AllWellFormed(LoadedBy(loadCall.kind))
          /\ loadCall.pc = "returned" => loadCall.ret = Instantiated(loadCall.kind)
    /\ \A cap \in Capabilities :
          CacheOf(cap) # NULL =>
              /\ AllWellFormed({cap})
              /\ CacheOf(cap) = Instantiated(cap)

\* C31 witness: a storage built-in followed by a wrongly shaped event-sink
\* module; getEventSinkPlugins threw after the storage adapters were
\* built and cached, and no event-sink list is cached.
C31_Witness ==
    /\ Len(pmEntries) = 2
    /\ pmEntries[1] = [type |-> "storage", name |-> "sqlite", path |-> NULL,
                       module |-> NoModule]
    /\ pmEntries[2].type = "eventSink"
    /\ pmEntries[2].module = Module(TRUE, TRUE, TRUE, {})
    /\ loadCall.kind = "eventSink" /\ loadCall.pc = "threw"
    /\ storagePlugins = <<1>>
    /\ eventSinkPlugins = NULL

\* A known built-in policy was declared and getPolicyPlugins returned
\* without an instance for it.
C31_BuiltInPolicyNotInstantiated ==
    /\ pmEntries = <<[type |-> "policy", name |-> "deny-tool-access", path |-> NULL,
                      module |-> NoModule]>>
    /\ loadCall.kind = "policy" /\ loadCall.pc = "returned"
    /\ loadCall.ret = <<>>

----------------------------------------------------------------------------
(* GuardioCore.createPolicyInstance / updatePolicyInstance: validated      *)
(* administrative writes (specification SpecValidate)                      *)

\* policySchemaRegistry[name]?.(): only deny-regex-parameter has a schema.
getPolicyConfigSchema(name) ==
    IF name = "deny-regex-parameter" THEN "denyRegexParameterConfigSchema" ELSE NULL

\* The mutant of safeParse: every configuration is accepted.
safeParse_pass(schema, config) == TRUE

\* schema.safeParse(body.config).success
safeParse(schema, config) == RegexConfigValid(config)

\* parsed.data: the object with the schema's fields only.
ParsedData(config) ==
    [isObject |-> TRUE,
     rules |-> [i \in 1..Len(config.rules) |->
                  [name |-> config.rules[i].name,
                   parameter_name |-> config.rules[i].parameter_name,
                   regex |-> config.rules[i].regex]]]

\* body.config when it is a non-array object, else {}.
ObjectOrEmpty(config) == IF config.isObject THEN config ELSE CfgEmpty

\* A rule whose pattern is the empty string.
CfgNoRegex ==
    [isObject |-> TRUE,
     rules |-> <<[name |-> "get_weather", parameter_name |-> "city", regex |-> ""]>>]

BodyConfigs == {CfgNull, CfgEmpty, CfgNoRegex, CfgParis}
PluginNames == {"deny-regex-parameter", "deny-tool-access", "ghost"}

\* The first half of both handlers: the configuration to store, or the
\* error result.  Without schema, createPolicyInstance tries
\* createPolicyPluginInstance(pluginName, {}); updatePolicyInstance does not.
Validated(pluginName, config, creating) ==
    LET schema == getPolicyConfigSchema(pluginName)
    IN IF schema # NULL
       THEN IF ~safeParse(schema, config)
            THEN [error |-> TRUE, config |-> CfgNull]
            ELSE [error |-> FALSE, config |-> ParsedData(config)]
       ELSE IF creating /\ InstantiateThrows(pluginName, CfgEmpty)
            THEN [error |-> TRUE, config |-> CfgNull]
            ELSE [error |-> FALSE, config |-> ObjectOrEmpty(config)]

\* Calls started so far.
CoreCalls == coreCall.n + (IF pendingUpdate.id # NULL THEN 1 ELSE 0)

Settle(kind, id, pluginName, config, res) ==
    coreCall' = [kind |-> kind, id |-> id, pluginName |-> pluginName,
                 config |-> config, result |-> res, n |-> coreCall.n + 1]

notCoreVars == <<upVars, policyTable, sinkMode, adminOps, sendVars, esVars, received,
                 settled, listeners, storageDown, pmVars, loadVars, evalCalls,
                 lastEvent, probe, stdio, postVars, discVars, connVars, streamOut>>

\* POST /api/policy-instances: the handler validates and, when the
\* configuration passed, the repository inserts the instance with the
\* new uuid i and its assignment.
CoreCreate(pluginName, config, i) ==
    /\ CoreCalls < MaxOps
    /\ LET v == Validated(pluginName, config, TRUE)
       IN IF v.error
          THEN /\ Settle("create", NULL, pluginName, config, "error")
               /\ UNCHANGED <<instancesTbl, assignmentsTbl, instanceRows, usedIds>>
          ELSE /\ i \notin usedIds
               /\ usedIds' = usedIds \cup {i}
               /\ LET R == RunAll(AdminOp("create", i, 0), coreCall.n + 1,
                                  DbState(instancesTbl, assignmentsTbl, "q1"))
                  IN /\ instancesTbl' = R.inst
                     /\ assignmentsTbl' = R.asg
                     /\ instanceRows' = [instanceRows EXCEPT ![i] =
                            [pluginId |-> pluginName, config |-> v.config]]
                     /\ Settle("create", i, pluginName, config,
                               IF R.step = "done" THEN "ok" ELSE "error")
    /\ UNCHANGED <<pendingUpdate, notCoreVars>>

\* PATCH /api/policy-instances/:id up to its first await: the instance is
\* looked up.
CoreUpdate(id, config) ==
    /\ CoreCalls < MaxOps
    /\ pendingUpdate.id = NULL
    /\ pendingUpdate' = [id |-> id, config |-> config, found |-> instanceRows[id]]
    /\ UNCHANGED <<instancesTbl, assignmentsTbl, instanceRows, coreCall, usedIds,
                   notCoreVars>>

\* The handler goes on with the instance it found: not found, refused by
\* the schema of the instance's plugin, or written by the repository
\* (UPDATE of the row, DELETE of its assignments, INSERT of the new one).
UpdateResumes ==
    /\ pendingUpdate.id # NULL
    /\ LET u == pendingUpdate
           v == Validated(u.found.pluginId, u.config, FALSE)
       IN IF u.found.pluginId = NULL \/ v.error
          THEN /\ Settle("update", u.id, u.found.pluginId, u.config, "error")
               /\ UNCHANGED <<instancesTbl, assignmentsTbl, instanceRows>>
          ELSE LET R == RunAll([AdminOp("update", u.id, 0) EXCEPT !.step = "q1"],
                               coreCall.n + 1,
                               DbState(instancesTbl, assignmentsTbl, "q1"))
               IN /\ instancesTbl' = R.inst
                  /\ assignmentsTbl' = R.asg
                  /\ instanceRows' =
                         IF instanceRows[u.id].pluginId # NULL
                         THEN [instanceRows EXCEPT ![u.id].config = v.config]
                         ELSE instanceRows
                  /\ Settle("update", u.id, u.found.pluginId, u.config,
                            IF R.step = "done" THEN "ok" ELSE "error")
    /\ pendingUpdate' = NoUpdate
    /\ UNCHANGED <<usedIds, notCoreVars>>

\* DELETE /api/policy-instances/:id
CoreDelete(id) ==
    /\ CoreCalls < MaxOps
    /\ LET R == RunAll(AdminOp("delete", id, 0), coreCall.n + 1,
                       DbState(instancesTbl, assignmentsTbl, "q1"))
       IN /\ instancesTbl' = R.inst
          /\ assignmentsTbl' = R.asg
    /\ instanceRows' = [instanceRows EXCEPT ![id] = NoInstance]
    /\ Settle("delete", id, NULL, CfgNull, "ok")
    /\ UNCHANGED <<pendingUpdate, usedIds, notCoreVars>>

InitValidate ==
    /\ InitUpstream
    /\ InitAdmin
    /\ InitSend
    /\ InitPlugins
    /\ InitLate
    /\ sinkMode = AllOk
    /\ InitPost
    /\ InitDisc
    /\ InitConn
    /\ backend = "sqlite"
    /\ persistedTools = [p \in Providers |-> NoTools]
    /\ policyTable = {}

NextValidate ==
    \/ \E n \in PluginNames, c \in BodyConfigs, i \in PolicyIds : CoreCreate(n, c, i)
    \/ \E i \in PolicyIds, c \in BodyConfigs : CoreUpdate(i, c)
    \/ UpdateResumes
    \/ \E i \in PolicyIds : CoreDelete(i)

SpecValidate == InitValidate /\ [][NextValidate]_vars

\* Stated on the configuration itself: what the typed schema of
\* deny-regex-parameter asks for.
MeetsRegexSchema(config) ==
    /\ config.isObject
    /\ config.rules # <<>>
    /\ \A i \in DOMAIN config.rules :
          Len(config.rules[i].name) > 0 /\ Len(config.rules[i].regex) > 0

\* A call the claim is about: the plugin has a typed schema that the body's
\* configuration fails, or the call creates an instance of an unknown plugin.
Refused(c) ==
    \/ /\ c.kind \in {"create", "update"}
       /\ c.pluginName = "deny-regex-parameter"
       /\ ~MeetsRegexSchema(c.config)
    \/ c.kind = "create" /\ c.pluginName \notin RegisteredPlugins

\* C32 -- validated administrative writes: a create or update whose
\* configuration fails the plugin's typed schema, and a create naming an
\* unknown plugin, settles with an error result in a step that changes no
\* table; so every stored instance names a registered plugin and every
\* stored configuration of a plugin with schema meets the schema.
C32_ValidatedAdminWrites ==
    /\ [][(coreCall' # coreCall /\ Refused(coreCall')) =>
              /\ coreCall'.result = "error"
              /\ UNCHANGED <<instancesTbl, assignmentsTbl, instanceRows>>]_vars
    /\ [](\A i \in PolicyIds :
              /\ instanceRows[i].pluginId # NULL =>
                    instanceRows[i].pluginId \in RegisteredPlugins
              /\ instanceRows[i].pluginId = "deny-regex-parameter" =>
                    MeetsRegexSchema(instanceRows[i].config))

\* C32 witness: an instance of deny-regex-parameter with a valid
\* configuration is stored with its assignment, and an update of it with
\* an empty rule list was refused.
C32_Witness ==
    /\ instanceRows["i1"] = [pluginId |-> "deny-regex-parameter",
                             config |-> ParsedData(CfgParis)]
    /\ \E r \in assignmentsTbl : r.policyInstanceId = "i1"
    /\ coreCall.kind = "update" /\ coreCall.id = "i1"
    /\ coreCall.config = CfgEmpty
    /\ coreCall.result = "error"

----------------------------------------------------------------------------
(* processMessage: the calls of policy.evaluate (specification SpecSeq)    *)

\* The mutant of NextToEvaluate: every policy not yet called may be called.
NextToEvaluate_any(j) == j \in idx..Len(policyPlugins)

\* `for (const policy of policyPlugins) { ... await policy.evaluate(...)`:
\* the policy the loop is at.
NextToEvaluate(j) == j = idx

Begun(j) == \E k \in DOMAIN evalCalls : evalCalls[k].i = j
Running(j) == \E k \in DOMAIN evalCalls : evalCalls[k].i = j /\ ~evalCalls[k].done

\* policy.evaluate({ toolName, args }) is called on the j-th policy with
\* the arguments as they are now; its promise is awaited.
BeginEvaluate(j) ==
    /\ pc = "evaluating"
    /\ NextToEvaluate(j)
    /\ ~Begun(j)
    /\ evalCalls' = Append(evalCalls, [i |-> j, given |-> args, done |-> FALSE])
    /\ UNCHANGED <<upVars, policyTable, sinkMode, adminVars, sendVars, esVars,
                   received, settled, listeners, storageDown, pmVars, loadVars,
                   coreVars, lastEvent, probe, stdio, postVars, discVars, connVars,
                   streamOut>>

\* The awaited promise settles and the loop body runs on the result.
CompleteEvaluate ==
    /\ Running(idx)
    /\ LoopBody
    /\ evalCalls' = [k \in DOMAIN evalCalls |->
                        IF evalCalls[k].i = idx
                        THEN [evalCalls[k] EXCEPT !.done = TRUE]
                        ELSE evalCalls[k]]
    /\ UNCHANGED <<policyTable, sinkMode, adminVars, sendVars, esVars, received,
                   settled, listeners, storageDown, pmVars, loadVars, coreVars,
                   lastEvent, probe, stdio>>

SeqTemplates ==
    { Template("units", "set-units", CfgEmpty, NULL, NULL, NULL),
      Template("locale", "set-locale", CfgEmpty, "a1", NULL, NULL),
      Template("no-paris", "deny-regex-parameter", CfgParis, NULL, NULL, NULL),
      Template("faulty", "faulty", CfgEmpty, NULL, NULL, "send_mail") }

SeqTables ==
    UNION { { {Row(t, f[t]) : t \in S} : f \in [S -> Priorities] } :
            S \in {S \in SUBSET SeqTemplates : Cardinality(S) <= MaxAssign + 1} }

InitSeq ==
    /\ InitUpstream
    /\ InitAdmin
    /\ InitSend
    /\ InitPlugins
    /\ InitLate
    /\ sinkMode = AllOk
    /\ InitPost
    /\ InitDisc
    /\ InitConn
    /\ backend = "sqlite"
    /\ persistedTools = [p \in Providers |-> NoTools]
    /\ policyTable \in SeqTables

NextSeq ==
    \/ announced["p1"] = 0 /\ EndpointReady("p1")
    \/ \E b \in CallBodies, a \in AgentIds : PostRequest(b, "p1", a)
    \/ ResolvePolicies
    \/ \E j \in 1..(MaxAssign + 2) : BeginEvaluate(j)
    \/ CompleteEvaluate
    \/ Deliver
    \/ \E ans \in RelayAnswers : UpstreamResponse(ans)

SpecSeq == InitSeq /\ [][NextSeq]_vars

\* The policies before the k-th that set key x.
SettersBefore(k, x) ==
    {i \in 1..(k - 1) : Overrides(i).has /\ x \in Keys(Overrides(i).obj)}

\* The arguments a are the call's arguments as overridden by policies
\* 1..k-1: the keys of the original arguments and of those overrides, each
\* with the value of the last of these policies that set it.
OverriddenUpTo(k, a) ==
    LET orig == ArgumentsOf(Request)
        overriding == {i \in 1..(k - 1) : Overrides(i).has}
        allKeys == Keys(orig.obj) \cup UNION {Keys(Overrides(i).obj) : i \in overriding}
    IN /\ a.has = (orig.has \/ overriding # {})
       /\ Keys(a.obj) = allKeys
       /\ Cardinality(a.obj) = Cardinality(allKeys)
       /\ \A x \in allKeys :
             ValueAt(a, x) = IF SettersBefore(k, x) = {} THEN ValueAt(orig, x)
                             ELSE ValueAt(Overrides(Last(SettersBefore(k, x))), x)

\* C33 -- sequential policy evaluation: the calls of evaluate made for a
\* submission are those of the 1st, 2nd, ... policy in this order, a call
\* is made only when all earlier ones have completed (so at most one is
\* running), and the k-th is given the arguments as overridden by the
\* policies 1..k-1.
C33_SequentialEvaluation ==
    /\ Cardinality({k \in DOMAIN evalCalls : ~evalCalls[k].done}) <= 1
    /\ \A k \in DOMAIN evalCalls :
          /\ evalCalls[k].i = k
          /\ k < Len(evalCalls) => evalCalls[k].done
          /\ OverriddenUpTo(k, evalCalls[k].given)

\* C33 witness: three policies were evaluated one after the other; the
\* second was given the units the first had set, the third the units the
\* second had set over them, and the call was forwarded.
C33_Witness ==
    /\ Len(evalCalls) = 3
    /\ \A k \in 1..3 : evalCalls[k].done
    /\ <<"units", "metric">> \in evalCalls[2].given.obj
    /\ <<"units", "imperial">> \in evalCalls[3].given.obj
    /\ <<"units", "metric">> \notin evalCalls[1].given.obj
    /\ CallForwarded

\* A policy whose evaluate threw or rejected was evaluated.
PolicyThrew == \E k \in DOMAIN evaluated : evaluated[k].pluginId = "faulty"

\* C36 -- fail-closed on a failing policy: once a policy's evaluate has
\* thrown or rejected, nothing is ever written to the provider for the
\* submission, no later policy is called, and the handler has ended with
\* exactly one reply, the 500 "Proxy Error".
C36_FailClosedOnThrow ==
    PolicyThrew =>
        /\ upstreamWrites = <<>>
        /\ evaluated[Len(evaluated)].pluginId = "faulty"
        /\ Len(evalCalls) = Len(evaluated)
        /\ Finished
        /\ httpResponses = <<ProxyError>>

\* C36 witness: a send_mail call met a policy that allowed it with
\* overrides and then the policy that throws; it was answered with the 500
\* and never written upstream.
C36_Witness ==
    /\ PolicyThrew
    /\ Len(evaluated) = 2
    /\ ToolNameOf(Request) = "send_mail"
    /\ httpResponses = <<ProxyError>>
    /\ upstreamWrites = <<>>

\* ---------------------------------------------------------------------------
\* The upstream connection's states, as the client transport and the server
\* transport report them (create-client-transport.ts 88-118, part_032
\* 237-240): subscribers and submissions that arrive after a stream error.
\* ---------------------------------------------------------------------------

notLastEvent == <<loadVars, coreVars, evalCalls, probe, stdio>>

\* The "endpoint" listener ran for one of the provider's EventSources.
EndpointEvent(p) ==
    /\ remoteEs[p] > 0
    /\ OnEndpoint(p)
    /\ lastEvent' = [lastEvent EXCEPT ![p] = "endpoint"]
    /\ UNCHANGED notLastEvent

\* The onerror handler ran for one of the provider's EventSources.
ErrorEvent(p, closes) ==
    /\ OnError(p, closes)
    /\ lastEvent' = [lastEvent EXCEPT ![p] = "error"]
    /\ UNCHANGED notLastEvent

InitUpstreamStates == InitRelay

NextUpstreamStates ==
    \/ \E p \in Providers : EndpointEvent(p)
    \/ \E p \in Providers, closes \in BOOLEAN : ErrorEvent(p, closes)
    \/ \E p \in Providers : RetryTimerFires(p)
    \/ \E h \in Streams, p \in Providers :
          lastEvent[p] = "error" /\ InOpeningOrder(h) /\ OpenStream(h, p)
    \/ \E b \in RelayBodies, p \in Providers :
          lastEvent[p] = "error" /\ PostRequest(b, p, HandleId(1))
    \/ ResolvePolicies
    \/ EvaluatePolicy
    \/ Deliver
    \/ \E ans \in RelayAnswers : UpstreamResponse(ans)

SpecUpstreamStates == InitUpstreamStates /\ [][NextUpstreamStates]_vars

\* The provider's stream broke and no endpoint announcement came since.
InError(p) == lastEvent[p] = "error"

\* C34 -- upstream state machine.  A provider is Ready exactly while the
\* last event of its stream is an endpoint announcement; while the last
\* event is a stream error, its write endpoint is not reported, it is not
\* among the providers announced to new subscribers, and a submission made
\* then is answered 503 "Remote MCP not ready" with nothing written upstream.
C34_UpstreamStateMachine ==
    /\ \A p \in Providers :
          /\ Ready(p) <=> lastEvent[p] = "endpoint"
          /\ InError(p) => getRemotePostUrl(p) = NULL /\ ~remoteReadyHas(p)
    /\ Submitted => httpResponses = <<NotReady>> /\ upstreamWrites = <<>>

\* C34 witness: p1 announced its endpoint once, then its stream broke; the
\* subscriber that connected after the error was sent the endpoint line,
\* and the submission made after the error was written to the stale URL.
C34_Witness ==
    /\ InError("p1")
    /\ announced["p1"] = 1
    /\ streams[1].state = "open" /\ streams[1].provider = "p1"
    /\ Announcements(1) # <<>>
    /\ sub.serverName = "p1"
    /\ Len(upstreamWrites) = 1
    /\ getRemotePostUrl("p1") # NULL

\* ---------------------------------------------------------------------------
\* The EventSources of one provider (create-client-transport.ts 96-118) and
\* the relay of what they deliver (create-server-transport.ts 178-182).
\* ---------------------------------------------------------------------------

\* How many times m occurs in the sequence s.
Copies(s, m) == Cardinality({k \in 1..Len(s) : s[k] = m})

\* A message the provider sends on every stream it serves (a notification):
\* each of the provider's EventSources delivers it once to its own
\* onmessage listener, which emits "message" for it.
Delivers(p, m) ==
    /\ Copies(received[p], m) < remoteEs[p]
    /\ Receive(p, m)

InitSingleStream == InitOrder

\* The first provider's stream breaks; clients subscribe to it once it has
\* announced its endpoint.
NextSingleStream ==
    \/ Announces("p1")
    \/ \E closes \in BOOLEAN : StreamError("p1", closes)
    \/ RetryTimerFires("p1")
    \/ \E h \in Streams : Ready("p1") /\ InOpeningOrder(h) /\ OpenStream(h, "p1")
    \/ \E n \in 1..2 : Delivers("p1", NthMessage("p1", n))

SpecSingleStream == InitSingleStream /\ [][NextSingleStream]_vars

\* C37 -- single upstream stream per provider: a provider never has more
\* than one EventSource that is connecting or delivering, whatever the
\* number of stream errors, and no subscriber is sent the same upstream
\* message twice.
C37_SingleUpstreamStream ==
    /\ \A p \in Providers : remoteEs[p] <= 1
    /\ \A h \in Streams : \A k \in 1..Len(RelayedTo(h)) :
          Copies(RelayedTo(h), RelayedTo(h)[k]) = 1

\* C37 witness: after one stream error of p1 the EventSource that failed is
\* still there next to the one the retry timer made, and a subscriber of p1
\* was sent the provider's first message once by each.
C37_Witness ==
    /\ Errors("p1") = 1
    /\ remoteEs["p1"] = 2
    /\ streams[1].state = "open" /\ streams[1].provider = "p1"
    /\ Copies(RelayedTo(1), NthMessage("p1", 1)) = 2

\* ---------------------------------------------------------------------------
\* One call of fetchToolsListViaDiscovery, step by step (part_031 72-190),
\* and the in-flight entry its caller keeps (create-server-transport.ts
\* 194-213).  probe.pc is the await the async function is at, probe.overall
\* and probe.wait tell whether the overall timer and waitForSseMessage's
\* timer are armed, probe.settled is the `settled` flag of finish().
\* ---------------------------------------------------------------------------

ProbeUrl == ServerUrl("p1")

\* const overallTimeout = setTimeout(() => finish(null), timeoutMs)
setOverallTimeout_none == FALSE
setOverallTimeout == TRUE

\* What a fetch to the provider's write URL settles with: the status (0 when
\* the fetch is rejected) and the tool list of the body, if it has one.
FetchAnswer(status, tools) == [status |-> status, tools |-> tools]
FetchAnswers ==
    { FetchAnswer(202, NULL), FetchAnswer(200, NULL), FetchAnswer(200, "T1"),
      FetchAnswer(500, NULL), FetchAnswer(0, NULL) }
Rejected(ans) == ans.status = 0
ResponseOk(ans) == ans.status \in 200..299

notProbe == <<loadVars, coreVars, evalCalls, lastEvent, stdio>>
notProbeStep ==
    <<upVars, policyTable, sinkMode, adminVars, sendVars, esVars, received,
      settled, listeners, storageDown, pmVars, postVars, discVars, connVars,
      streamOut>>

\* The async function goes on to its next await; nothing else changes.
ProbeStep(pr) ==
    /\ probe' = pr
    /\ UNCHANGED <<notProbeStep, notProbe>>

\* finish(result): nothing when the handshake has settled; otherwise the
\* flag is set, the EventSource is closed and the promise resolves, upon
\* which the caller's finally and then callbacks run.
finish(pr, tools) ==
    /\ IF probe.settled
       THEN probe' = pr /\ UNCHANGED notProbeStep
       ELSE probe' = [pr EXCEPT !.settled = TRUE] /\ OnResolve(ProbeUrl, tools)
    /\ UNCHANGED notProbe

\* The async function has ended: its finally clears the overall timer.
Ended(pr) == [pr EXCEPT !.pc = "done", !.wait = FALSE, !.overall = FALSE]

\* The readiness event of a provider at the url starts the handshake: the
\* EventSource is made and the overall timer armed.
ProbeBegin(p) ==
    /\ ServerUrl(p) = ProbeUrl
    /\ ~DiscoveryRunning(ProbeUrl)
    /\ OnEndpoint(p)
    /\ probe' = [pc |-> "connecting", overall |-> setOverallTimeout,
                 wait |-> FALSE, settled |-> FALSE]
    /\ UNCHANGED notProbe

\* A readiness event while the handshake runs joins it.
ProbeJoined(p) == DiscoveryRunning(ServerUrl(p)) /\ EndpointReady(p)

\* The "endpoint" event of the discovery EventSource: the initialize request
\* is sent.
ProbeEndpoint ==
    /\ probe.pc = "connecting"
    /\ ~probe.settled
    /\ ProbeStep([probe EXCEPT !.pc = "initFetch"])

\* The fetch of the initialize request settles.
InitFetchSettles(ans) ==
    /\ probe.pc = "initFetch"
    /\ IF Rejected(ans) THEN finish(Ended(probe), NULL)
       ELSE IF ans.status = 202
       THEN ProbeStep([probe EXCEPT !.pc = "initWait", !.wait = TRUE])
       ELSE IF ~ResponseOk(ans) THEN finish(Ended(probe), NULL)
       ELSE ProbeStep([probe EXCEPT !.pc = "notifyFetch"])

\* The fetch of notifications/initialized settles; its status is not read.
NotifyFetchSettles(ans) ==
    /\ probe.pc = "notifyFetch"
    /\ IF Rejected(ans) THEN finish(Ended(probe), NULL)
       ELSE ProbeStep([probe EXCEPT !.pc = "toolsFetch"])

\* The fetch of the tools/list request settles.
ToolsFetchSettles(ans) ==
    /\ probe.pc = "toolsFetch"
    /\ IF Rejected(ans) THEN finish(Ended(probe), NULL)
       ELSE IF ans.status = 202
       THEN ProbeStep([probe EXCEPT !.pc = "toolsWait", !.wait = TRUE])
       ELSE IF ResponseOk(ans) /\ ans.tools # NULL
       THEN finish(Ended(probe), ans.tools)
       ELSE finish(Ended(probe), NULL)

\* waitForSseMessage's onmessage listener gets a message its predicate
\* accepts (the EventSource is open, so the handshake has not settled).
SseAnswer(tools) ==
    /\ probe.wait
    /\ ~probe.settled
    /\ IF probe.pc = "initWait"
       THEN ProbeStep([probe EXCEPT !.pc = "notifyFetch", !.wait = FALSE])
       ELSE finish(Ended(probe), tools)

\* waitForSseMessage's timer: it resolves null, and the function finishes
\* with null in either wait.
WaitTimerFires ==
    /\ probe.wait
    /\ finish(Ended(probe), NULL)

\* The overall timer; the async function, if it has started, goes on.
OverallTimerFires ==
    /\ probe.overall
    /\ finish([probe EXCEPT !.overall = FALSE], NULL)

\* es.onerror of the discovery EventSource.
ProbeError ==
    /\ probe.pc # "idle"
    /\ ~probe.settled
    /\ finish([probe EXCEPT !.overall = FALSE], NULL)

\* Catalogs of an earlier run may be saved; the storage is better-sqlite3.
InitHandshake ==
    /\ InitUpstream
    /\ InitAdmin
    /\ InitSend
    /\ InitPlugins
    /\ InitLate
    /\ sinkMode = AllOk
    /\ InitPost
    /\ InitDisc
    /\ InitConn
    /\ backend = "sqlite"
    /\ persistedTools \in [Providers -> SavedCatalogs]
    /\ policyTable = {}

NextHandshake ==
    \/ \E p \in Providers : ProbeBegin(p)
    \/ \E p \in Providers : ProbeJoined(p)
    \/ ProbeEndpoint
    \/ \E ans \in FetchAnswers : InitFetchSettles(ans)
    \/ \E ans \in FetchAnswers : NotifyFetchSettles(ans)
    \/ \E ans \in FetchAnswers : ToolsFetchSettles(ans)
    \/ \E tools \in Catalogs : SseAnswer(tools)
    \/ WaitTimerFires
    \/ OverallTimerFires
    \/ ProbeError

\* An armed timer fires.  Nothing is assumed of the provider: it need not
\* announce an endpoint, answer a fetch or send a message.
TimersFire == WF_vars(WaitTimerFires) /\ WF_vars(OverallTimerFires)

SpecHandshake == InitHandshake /\ [][NextHandshake]_vars /\ TimersFire

ProbePending == probe.pc # "idle" /\ ~probe.settled

\* C35 -- discovery always terminates: a handshake that has started
\* eventually settles, after which no handshake is in flight and the url's
\* in-flight entry is gone; it settles once, with a catalog or with null,
\* and while it is pending the entry is there.
C35_DiscoveryTerminates ==
    /\ ProbePending ~> (probe.settled /\ ~DiscoveryRunning(ProbeUrl))
    /\ [](ProbePending <=> InFlight(ProbeUrl) = 1)
    /\ [](ProbePending <=> DiscoveryRunning(ProbeUrl))
    /\ [][probe.settled' /\ ~probe.settled =>
            lastResolved'.url = ProbeUrl /\ lastResolved'.tools \in Catalogs \cup {NULL}]_vars

\* C35 witness: the provider announced its endpoint to the handshake and
\* never answered the initialize request; the overall timer settled the
\* handshake with null and the entry is gone.
C35_Witness ==
    /\ probe.pc = "initFetch"
    /\ probe.settled
    /\ ~probe.overall
    /\ lastResolved = [url |-> ProbeUrl, tools |-> NULL]
    /\ ~DiscoveryRunning(ProbeUrl)

\* ---------------------------------------------------------------------------
\* The stdio core (src/core/types.ts 98-177): client lines read from stdin,
\* lines written to the tool process, and the tool's lines.
\* A client line is its arrival number and what it is: a tools/call the
\* policies allow ("call"), one a policy blocks ("blocked"), another request
\* or notification ("note"), or text that is not JSON ("garbage").  The id
\* of a request is its arrival number.
\* ---------------------------------------------------------------------------

AppKinds == {"call", "blocked", "note", "garbage"}
AppLine(n, kind) == [n |-> n, kind |-> kind]
IdOf(line) == line.n

ErrorResponse(id) == [t |-> "error", id |-> id]
ToolResponse(id) == [t |-> "response", id |-> id]

\* process.stdout.write of a JSON-RPC error
sendErrorResponse(s, id) == [s EXCEPT !.toApp = Append(@, ErrorResponse(id))]

\* this.child.stdin.write(line + "\n")
write(s, line) == [s EXCEPT !.toTool = Append(@, line)]

\* this.pendingResponseId = request.id ?? null, then the write
Forwarded(s, line) == write([s EXCEPT !.pending = IdOf(line)], line)

RECURSIVE processAppLine(_, _)
RECURSIVE drainLoop(_)

\* drainAppQueue: the pending id is cleared, then every queued line is
\* shifted and handed to processAppLine, whose promise is not awaited.
drainAppQueue(s) == drainLoop([s EXCEPT !.pending = NoId])

\* processAppLine up to its first await (or to its end): a line that is not
\* a tools/call or not JSON is written; a blocked call is answered and the
\* queue drained; an allowed call is written and becomes the pending one,
\* unless intervention plugins are configured, in which case the function
\* awaits the first plugin's answer.
processAppLine(s, line) ==
    IF line.kind \in {"note", "garbage"} THEN write(s, line)
    ELSE IF line.kind = "blocked"
    THEN drainAppQueue(sendErrorResponse(s, IdOf(line)))
    ELSE IF s.plugins > 0
    THEN [s EXCEPT !.awaiting = Append(@, [line |-> line, k |-> 1])]
    ELSE Forwarded(s, line)

\* The while loop of drainAppQueue.
drainLoop(s) ==
    IF s.queue = <<>> THEN s
    ELSE drainLoop(processAppLine([s EXCEPT !.queue = Tail(@)], Head(s.queue)))

Without(seq, k) == SubSeq(seq, 1, k - 1) \o SubSeq(seq, k + 1, Len(seq))

notStdio ==
    <<upVars, policyTable, sinkMode, adminVars, sendVars, esVars, received,
      settled, listeners, storageDown, pmVars, postVars, discVars, connVars,
      streamOut, loadVars, coreVars, evalCalls, lastEvent, probe>>

\* The "line" listener of the client side: the line is queued while an id is
\* pending and processed otherwise.
OnAppLine(kind) ==
    /\ stdio.arrived < MaxAppLines
    /\ LET line == AppLine(stdio.arrived + 1, kind)
           s == [stdio EXCEPT !.arrived = @ + 1]
       IN stdio' = IF s.pending # NoId
                   THEN [s EXCEPT !.queue = Append(@, line)]
                   ELSE processAppLine(s, line)
    /\ UNCHANGED notStdio

\* An intervention plugin's act() settles and processAppLine goes on after
\* its await: rejected, the call is answered and the queue drained;
\* approved, the next plugin is asked or the call is written and becomes the
\* pending one.
ActSettles(k, approved) ==
    /\ k \in 1..Len(stdio.awaiting)
    /\ LET e == stdio.awaiting[k]
           s == [stdio EXCEPT !.awaiting = Without(@, k)]
       IN stdio' = IF ~approved
                   THEN drainAppQueue(sendErrorResponse(s, IdOf(e.line)))
                   ELSE IF e.k < s.plugins
                   THEN [s EXCEPT !.awaiting = Append(@, [e EXCEPT !.k = @ + 1])]
                   ELSE Forwarded(s, e.line)
    /\ UNCHANGED notStdio

\* The ids of the forwarded calls the tool has answered.
Answered == {stdio.toApp[i].id : i \in {j \in 1..Len(stdio.toApp) : stdio.toApp[j].t = "response"}}
ForwardedCalls == {i \in 1..Len(stdio.toTool) : stdio.toTool[i].kind = "call"}

\* The "line" listener of the tool side: the line is passed on to the
\* client, and the queue is drained when it carries the pending id.  The
\* tool answers a call it was sent, or writes a line without an id.
OnToolLine(id) ==
    /\ \/ \E i \in ForwardedCalls : id = IdOf(stdio.toTool[i])
       \/ id = NoId
    /\ id \notin Answered
    /\ LET s == [stdio EXCEPT !.toApp = Append(@, ToolResponse(id))]
       IN stdio' = IF s.pending # NoId /\ id = s.pending
                   THEN drainAppQueue(s)
                   ELSE s
    /\ UNCHANGED notStdio

InitStdio ==
    /\ InitUpstream
    /\ InitAdmin
    /\ InitSend
    /\ InitPlugins
    /\ InitLoader
    /\ InitCore
    /\ evalCalls = <<>>
    /\ lastEvent = [p \in Providers |-> "none"]
    /\ probe = NoProbe
    /\ stdio \in {StdioStart(n) : n \in 0..MaxIntervention}
    /\ sinkMode = AllOk
    /\ InitPost
    /\ InitDisc
    /\ InitConn
    /\ backend = "sqlite"
    /\ persistedTools = [p \in Providers |-> NoTools]
    /\ policyTable = {}

NextStdio ==
    \/ \E kind \in AppKinds : OnAppLine(kind)
    \/ \E k \in 1..MaxAppLines, approved \in BOOLEAN : ActSettles(k, approved)
    \/ \E id \in 0..MaxAppLines : OnToolLine(id)

SpecStdio == InitStdio /\ [][NextStdio]_vars

\* C38 -- one call in flight: a forwarded tools/call that the tool has not
\* answered is the last line written to the tool.
C38_OneCallInFlight ==
    \A i \in ForwardedCalls :
        IdOf(stdio.toTool[i]) \notin Answered => i = Len(stdio.toTool)

\* C38 witness: without intervention plugins, two calls were queued behind
\* the first; its response released both, so the second and the third are
\* in flight together and only the third's id is pending.
C38_Witness ==
    /\ stdio.plugins = 0
    /\ stdio.toTool = <<AppLine(1, "call"), AppLine(2, "call"), AppLine(3, "call")>>
    /\ Answered = {1}
    /\ stdio.pending = 3

\* C39 -- FIFO delivery: the lines written to the tool are in the order of
\* their arrival.
C39_FifoDelivery ==
    \A i, j \in 1..Len(stdio.toTool) :
        i < j => stdio.toTool[i].n < stdio.toTool[j].n

\* C39 witness: with an intervention plugin, the notification that arrived
\* while the plugin was asked about the call before it was written first.
C39_Witness ==
    /\ stdio.plugins = 1
    /\ stdio.toTool = <<AppLine(2, "note"), AppLine(1, "call")>>

\* Without intervention plugins the order of arrival is kept.
FifoWithoutIntervention == stdio.plugins = 0 => C39_FifoDelivery

====
